---- MODULE Spec2Model ----
(***************************************************************************)
(* Workflow orchestration core of Coreza: the run coordinator (run_job),   *)
(* the DAG execution engine (execute_workflow, topological_sort,           *)
(* execute_node) and the schedule translator (schedule_obj_to_cron).       *)
(*                                                                         *)
(* The specifications share the variables:                                 *)
(*   Spec          one run_job call on one workflow definition             *)
(*   FairSpec      Spec with the worker's steps weakly fair                *)
(*   SpecTopo      topological_sort applied to a node/edge list            *)
(*   SpecCron      schedule_obj_to_cron applied to a schedule object       *)
(*   SpecRegistry  schedule_job and remove_job calls on the registry       *)
(*   SpecActivate  activate_workflow and deactivate_workflow calls         *)
(*   SpecResolve   resolve_references applied to a value and a context     *)
(*   SpecInputs    the inputs of a node built from a predecessor's output  *)
(*   SpecRuns      several run_job tasks of one workflow, interleaved      *)
(*   SpecFire      trigger fires while workers execute earlier requests    *)
(*   SpecNode      execute_node applied to a node, a manifest and inputs   *)
(* A specification leaves the variables of the others at their idle       *)
(* values.                                                                 *)
(*                                                                         *)
(* Store calls (supabase ... .execute()) have three outcomes: "ok" (the    *)
(* write is applied and data is returned), "nodata" (nothing is applied    *)
(* and the call returns empty data) and "raise" (nothing is applied and    *)
(* the call raises).                                                       *)
(***************************************************************************)
EXTENDS Integers, Sequences, FiniteSets, TLC

\* ---------------------------------------------------------------- bounds
MaxNodes == 2
MaxEdges == 1
MaxStoreFaults == 1
MaxTopoNodes == 3
MaxTopoEdges == 3
MaxCount == 5

VARIABLES
    wfTypes,       \* workflows.nodes: the node types in declaration order (node id = position)
    wfEdges,       \* workflows.edges: list of <<source, target>>
    pc,            \* position of run_job / execute_workflow
    runRow,        \* status of the workflow_runs row: "none" before it exists
    runWrites,     \* completion writes run_job issued: list of [status, outcome]
    faults,        \* store calls of this job that failed so far
    loaded,        \* execute_workflow: wf = res.data was assigned
    order,         \* execute_workflow: order (node ids)
    idx,           \* execute_workflow: position of the for loop in order
    status,        \* execute_workflow: local status of the current node
    result,        \* execute_workflow: local result of the current node
    context,       \* execute_workflow: context, node id -> result or "absent"
    rows,          \* node_executions rows of this run: node id -> [status, output]
    dispatched,    \* node ids for which execute_node was called
    raised,        \* node ids whose handler raised
    insertIssued,  \* node ids whose `running` insert was issued
    insertFailed,  \* node ids whose `running` insert returned no data or raised
    updateIssued,  \* node ids whose completion update was issued
    updateFailed,  \* node ids whose completion update returned no data or raised
    topoOut,       \* SpecTopo: result of topological_sort, "pending" before the call
    sched,         \* SpecCron: the schedule object
    cronOut,       \* SpecCron: result of schedule_obj_to_cron, "pending" before the call
    jobs,          \* APScheduler job store: set of [id, cron], id the workflow id
    wfActive,      \* workflows.is_active per workflow id
    wfCron,        \* workflows.schedule_cron per workflow id, <<>> when never set
    celeryQueue,   \* Celery queue: workflow ids of the pending run_job requests
    lastCall,      \* the last API call or scheduler event and how it ended
    rexpr,         \* SpecResolve: the template handed to resolve_references
    rcontext,      \* SpecResolve: the context handed to it
    rself,         \* SpecResolve: the id of the node the template belongs to
    rout,          \* SpecResolve: the string returned
    ipc,           \* SpecInputs: position in the run of two nodes
    inode,         \* SpecInputs: the second node and the result of the first
    icontext,      \* SpecInputs: the ExecutionContext of the run
    received,      \* SpecInputs: the inputs the handler of the second node got
    iwrites,       \* SpecInputs: node_executions writes issued for the second node
    inFlight,      \* SpecFire: number of run_job tasks executing, per workflow id
    runs,          \* SpecRuns: the local state of each of two run_job tasks
    runRows,       \* SpecRuns: workflow_runs, row id -> status
    nodeRows,      \* SpecRuns: node_executions, <<run id, node id>> -> status
    nodeIn,        \* SpecNode: the node, manifest and inputs execute_node is called with
    nodeOut        \* SpecNode: what execute_node returned

runVars == <<pc, runRow, runWrites, faults, loaded, order, idx, status, result, context, rows,
             dispatched, raised, insertIssued, insertFailed, updateIssued, updateFailed>>
schedVars == <<jobs, wfActive, wfCron, celeryQueue, lastCall>>
resolveVars == <<rexpr, rcontext, rself, rout, ipc, inode, icontext, received>>
laterVars == <<iwrites, inFlight, runs, runRows, nodeRows, nodeIn, nodeOut>>
vars == <<wfTypes, wfEdges, runVars, topoOut, sched, cronOut, schedVars, resolveVars, laterVars>>

\* ------------------------------------------------------------ data model
Nodes(types) == 1..Len(types)
Pairs(n) == (1..n) \X (1..n)

RECURSIVE SeqsUpTo(_, _)
SeqsUpTo(S, n) ==
    IF n = 0 THEN {<<>>}
    ELSE LET shorter == SeqsUpTo(S, n - 1)
         IN  shorter \cup {Append(s, x) : s \in {t \in shorter : Len(t) = n - 1}, x \in S}

\* "Scheduler" is the trigger type; "Action" has a manifest and a handler;
\* "NoHandler" has a manifest whose action url resolves to no handler;
\* "Unknown" has no manifest.
NodeTypes == {"Scheduler", "Action", "NoHandler", "Unknown"}
StoreOutcomes == {"ok", "nodata", "raise"}
\* what a handler does: return an output ("ok"), return an output that carries
\* an `error` key ("errkey"), or raise
HandlerOutcomes == {"ok", "errkey", "raise"}

\* manifests.get(node['type'])
HasManifest(type) == type \in {"Scheduler", "Action", "NoHandler"}

NoRow == [status |-> "none", output |-> "none"]

\* ------------------------------------------------------ topological_sort
RECURSIVE Successors(_, _)
\* graph[n]: the targets of the edges leaving n, in edge order
Successors(edges, n) ==
    IF edges = <<>> THEN <<>>
    ELSE (IF Head(edges)[1] = n THEN <<Head(edges)[2]>> ELSE <<>>)
         \o Successors(Tail(edges), n)

\* indegree after the loop over edges
InDegree(n, edges) ==
    [m \in 1..n |-> Cardinality({i \in 1..Len(edges) : edges[i][2] = m})]

RECURSIVE ZeroQueue(_, _, _)
\* queue = [nid for nid, deg in indegree.items() if deg == 0], from node k on
ZeroQueue(n, indeg, k) ==
    IF k > n THEN <<>>
    ELSE (IF indeg[k] = 0 THEN <<k>> ELSE <<>>) \o ZeroQueue(n, indeg, k + 1)

RECURSIVE Relax(_, _, _)
\* for m in graph[nid]: indegree[m] -= 1; if indegree[m] == 0: queue.append(m)
Relax(succ, indeg, queue) ==
    IF succ = <<>> THEN <<indeg, queue>>
    ELSE LET m == Head(succ)
             d == [indeg EXCEPT ![m] = @ - 1]
         IN  Relax(Tail(succ), d, IF d[m] = 0 THEN Append(queue, m) ELSE queue)

RECURSIVE Kahn_lifo(_, _, _, _)
\* Kahn popping the newest entry of the queue, queue.pop(), instead of the oldest
Kahn_lifo(edges, indeg, queue, ord) ==
    IF queue = <<>> THEN ord
    ELSE LET nid == queue[Len(queue)]
             r == Relax(Successors(edges, nid), indeg, SubSeq(queue, 1, Len(queue) - 1))
         IN  Kahn_lifo(edges, r[1], r[2], Append(ord, nid))

RECURSIVE Kahn(_, _, _, _)
\* while queue: nid = queue.pop(0); order.append(nid); relax graph[nid]
Kahn(edges, indeg, queue, ord) ==
    IF queue = <<>> THEN ord
    ELSE LET nid == Head(queue)
             r == Relax(Successors(edges, nid), indeg, Tail(queue))
         IN  Kahn(edges, r[1], r[2], Append(ord, nid))

\* topological_sort with source and target of every edge exchanged
topological_sort_swapped(n, edges) ==
    LET rev == [i \in 1..Len(edges) |-> <<edges[i][2], edges[i][1]>>]
        indeg == InDegree(n, rev)
        ord == Kahn(rev, indeg, ZeroQueue(n, indeg, 1), <<>>)
    IN  IF Len(ord) # n THEN [ok |-> FALSE, order |-> <<>>]
        ELSE [ok |-> TRUE, order |-> ord]

\* topological_sort without the length check after the loop
topological_sort_nocheck(n, edges) ==
    LET indeg == InDegree(n, edges)
    IN  [ok |-> TRUE, order |-> Kahn(edges, indeg, ZeroQueue(n, indeg, 1), <<>>)]

\* [ok |-> TRUE, order |-> ...] or, when the exception is raised, ok = FALSE
topological_sort(n, edges) ==
    LET indeg == InDegree(n, edges)
        ord == Kahn(edges, indeg, ZeroQueue(n, indeg, 1), <<>>)
    IN  IF Len(ord) # n THEN [ok |-> FALSE, order |-> <<>>]
        ELSE [ok |-> TRUE, order |-> ord]

\* ------------------------------------------------------------ store calls
\* A failing store call is allowed while the job has faults left.
MayFail(o) == o = "ok" \/ faults < MaxStoreFaults
CountFault(o) == IF o = "ok" THEN faults ELSE faults + 1

CurrentNode == order[idx]

\* --------------------------------------------------------------- run_job
\* 1. insert the workflow_runs row (status running); return when no data
run_job_insert ==
    /\ pc = "queued"
    /\ \E o \in StoreOutcomes :
        /\ MayFail(o)
        /\ faults' = CountFault(o)
        /\ runRow' = IF o = "ok" THEN "running" ELSE runRow
        /\ pc' = IF o = "ok" THEN "load" ELSE "done"
    /\ UNCHANGED <<wfTypes, wfEdges, loaded, runWrites, order, idx, status, result, context, rows,
                   dispatched, raised, insertIssued, insertFailed, updateIssued,
                   updateFailed, topoOut, sched, cronOut, schedVars, resolveVars, laterVars>>

\* run_job_mark_success followed by the failed update in every case (finally
\* in place of except)
run_job_mark_success_finally ==
    /\ pc = "engine_done"
    /\ \E o \in StoreOutcomes :
        /\ MayFail(o)
        /\ faults' = CountFault(o)
        /\ runWrites' = Append(runWrites, [status |-> "success", outcome |-> o])
        /\ runRow' = IF o = "ok" THEN "success" ELSE runRow
        /\ pc' = "except"
    /\ UNCHANGED <<wfTypes, wfEdges, loaded, order, idx, status, result, context, rows,
                   dispatched, raised, insertIssued, insertFailed, updateIssued,
                   updateFailed, topoOut, sched, cronOut, schedVars, resolveVars, laterVars>>

\* run_job_mark_success returning without the update of the run row
run_job_mark_success_skip ==
    /\ pc = "engine_done"
    /\ pc' = "done"
    /\ UNCHANGED <<wfTypes, wfEdges, loaded, runRow, runWrites, faults, order, idx, status, result,
                   context, rows, dispatched, raised, insertIssued, insertFailed, updateIssued,
                   updateFailed, topoOut, sched, cronOut, schedVars, resolveVars, laterVars>>

\* 3a. execute_workflow returned: update the row to success (inside the try)
run_job_mark_success ==
    /\ pc = "engine_done"
    /\ \E o \in StoreOutcomes :
        /\ MayFail(o)
        /\ faults' = CountFault(o)
        /\ runWrites' = Append(runWrites, [status |-> "success", outcome |-> o])
        /\ runRow' = IF o = "ok" THEN "success" ELSE runRow
        /\ pc' = IF o = "raise" THEN "except" ELSE "done"
    /\ UNCHANGED <<wfTypes, wfEdges, loaded, order, idx, status, result, context, rows,
                   dispatched, raised, insertIssued, insertFailed, updateIssued,
                   updateFailed, topoOut, sched, cronOut, schedVars, resolveVars, laterVars>>

\* 3b. except Exception: update the row to failed
run_job_mark_failed ==
    /\ pc = "except"
    /\ \E o \in StoreOutcomes :
        /\ MayFail(o)
        /\ faults' = CountFault(o)
        /\ runWrites' = Append(runWrites, [status |-> "failed", outcome |-> o])
        /\ runRow' = IF o = "ok" THEN "failed" ELSE runRow
        /\ pc' = "done"
    /\ UNCHANGED <<wfTypes, wfEdges, loaded, order, idx, status, result, context, rows,
                   dispatched, raised, insertIssued, insertFailed, updateIssued,
                   updateFailed, topoOut, sched, cronOut, schedVars, resolveVars, laterVars>>

\* ------------------------------------------------------ execute_workflow
\* load the workflow definition; return when there is no data
execute_workflow_load ==
    /\ pc = "load"
    /\ \E o \in StoreOutcomes :
        /\ MayFail(o)
        /\ faults' = CountFault(o)
        /\ loaded' = (o = "ok")
        /\ pc' = CASE o = "ok" -> "sort"
                   [] o = "nodata" -> "engine_done"
                   [] OTHER -> "except"
    /\ UNCHANGED <<wfTypes, wfEdges, runRow, runWrites, order, idx, status, result,
                   context, rows, dispatched, raised, insertIssued, insertFailed,
                   updateIssued, updateFailed, topoOut, sched, cronOut, schedVars, resolveVars, laterVars>>

\* order = topological_sort(nodes, edges); context = {}
execute_workflow_sort ==
    /\ pc = "sort"
    /\ LET r == topological_sort(Len(wfTypes), wfEdges)
       IN  /\ order' = r.order
           /\ pc' = IF r.ok THEN "loop" ELSE "except"
    /\ idx' = 1
    /\ UNCHANGED <<wfTypes, wfEdges, loaded, runRow, runWrites, faults, status, result, context,
                   rows, dispatched, raised, insertIssued, insertFailed, updateIssued,
                   updateFailed, topoOut, sched, cronOut, schedVars, resolveVars, laterVars>>

\* the for loop is exhausted: execute_workflow returns
loop_exit ==
    /\ pc = "loop"
    /\ idx > Len(order)
    /\ pc' = "engine_done"
    /\ UNCHANGED <<wfTypes, wfEdges, loaded, runRow, runWrites, faults, order, idx, status, result,
                   context, rows, dispatched, raised, insertIssued, insertFailed,
                   updateIssued, updateFailed, topoOut, sched, cronOut, schedVars, resolveVars, laterVars>>

\* if node['type'] == 'Scheduler': continue
loop_skip_trigger ==
    /\ pc = "loop"
    /\ idx <= Len(order)
    /\ wfTypes[CurrentNode] = "Scheduler"
    /\ idx' = idx + 1
    /\ UNCHANGED <<wfTypes, wfEdges, loaded, pc, runRow, runWrites, faults, order, status, result,
                   context, rows, dispatched, raised, insertIssued, insertFailed,
                   updateIssued, updateFailed, topoOut, sched, cronOut, schedVars, resolveVars, laterVars>>

\* loop_skip_no_manifest that leaves the loop instead of continuing
loop_skip_no_manifest_break ==
    /\ pc = "loop"
    /\ idx <= Len(order)
    /\ wfTypes[CurrentNode] # "Scheduler"
    /\ ~HasManifest(wfTypes[CurrentNode])
    /\ pc' = "engine_done"
    /\ UNCHANGED <<wfTypes, wfEdges, loaded, runRow, runWrites, faults, order, idx, status,
                   result, context, rows, dispatched, raised, insertIssued, insertFailed,
                   updateIssued, updateFailed, topoOut, sched, cronOut, schedVars, resolveVars, laterVars>>

\* if not manifest: continue
loop_skip_no_manifest ==
    /\ pc = "loop"
    /\ idx <= Len(order)
    /\ wfTypes[CurrentNode] # "Scheduler"
    /\ ~HasManifest(wfTypes[CurrentNode])
    /\ idx' = idx + 1
    /\ UNCHANGED <<wfTypes, wfEdges, loaded, pc, runRow, runWrites, faults, order, status, result,
                   context, rows, dispatched, raised, insertIssued, insertFailed,
                   updateIssued, updateFailed, topoOut, sched, cronOut, schedVars, resolveVars, laterVars>>

\* try: inputs = the resolved values plus user_id and credential_id; status =
\* 'running'. The values of the workflows drawn here hold no `{{` marker, so
\* resolve_references returns each unchanged and does not raise.
loop_enter ==
    /\ pc = "loop"
    /\ idx <= Len(order)
    /\ wfTypes[CurrentNode] # "Scheduler"
    /\ HasManifest(wfTypes[CurrentNode])
    /\ status' = "running"
    /\ result' = "none"
    /\ pc' = "insert"
    /\ UNCHANGED <<wfTypes, wfEdges, loaded, runRow, runWrites, faults, order, idx, context, rows,
                   dispatched, raised, insertIssued, insertFailed, updateIssued,
                   updateFailed, topoOut, sched, cronOut, schedVars, resolveVars, laterVars>>

\* insert the node_executions row (running); a raise is caught by the except
node_insert ==
    /\ pc = "insert"
    /\ \E o \in StoreOutcomes :
        /\ MayFail(o)
        /\ faults' = CountFault(o)
        /\ insertIssued' = insertIssued \cup {CurrentNode}
        /\ insertFailed' = IF o = "ok" THEN insertFailed ELSE insertFailed \cup {CurrentNode}
        /\ rows' = IF o = "ok"
                   THEN [rows EXCEPT ![CurrentNode] = [status |-> "running", output |-> "none"]]
                   ELSE rows
        /\ status' = IF o = "raise" THEN "failed" ELSE status
        /\ result' = IF o = "raise" THEN "exc" ELSE result
        /\ pc' = IF o = "raise" THEN "update" ELSE "dispatch"
    /\ UNCHANGED <<wfTypes, wfEdges, loaded, runRow, runWrites, order, idx, context, dispatched,
                   raised, updateIssued, updateFailed, topoOut, sched, cronOut, schedVars, resolveVars, laterVars>>

\* ---------------------------------------------------------- execute_node
\* The value execute_node returns for a node of this type when its handler
\* behaves as h, or "raise" when the handler raises.
execute_node(type, h) ==
    IF type = "NoHandler" THEN "nohandler"   \* {"status": "error", "output": "No handler for ..."}
    ELSE h                                   \* return handler(inputs)

\* result = execute_node(node, manifest, inputs); status = 'success'
\* except Exception: status = 'failed'; result = {'error': ..., 'trace': ...}
node_dispatch ==
    /\ pc = "dispatch"
    /\ \E h \in HandlerOutcomes :
        LET r == execute_node(wfTypes[CurrentNode], h)
        IN  /\ dispatched' = dispatched \cup {CurrentNode}
            /\ raised' = IF r = "raise" THEN raised \cup {CurrentNode} ELSE raised
            /\ status' = IF r = "raise" THEN "failed" ELSE "success"
            /\ result' = IF r = "raise" THEN "exc" ELSE r
    /\ pc' = "update"
    /\ UNCHANGED <<wfTypes, wfEdges, loaded, runRow, runWrites, faults, order, idx, context, rows,
                   insertIssued, insertFailed, updateIssued, updateFailed, topoOut, sched,
                   cronOut, schedVars, resolveVars, laterVars>>

\* update the node_executions row with status and output; outside the try, so a
\* raise leaves execute_workflow. The update matches the row only if it exists.
node_update ==
    /\ pc = "update"
    /\ \E o \in StoreOutcomes :
        LET applied == o = "ok" /\ rows[CurrentNode].status # "none"
        IN  /\ MayFail(o)
            /\ faults' = CountFault(o)
            /\ updateIssued' = updateIssued \cup {CurrentNode}
            /\ updateFailed' = IF applied THEN updateFailed
                               ELSE updateFailed \cup {CurrentNode}
            /\ rows' = IF applied
                       THEN [rows EXCEPT ![CurrentNode] = [status |-> status, output |-> result]]
                       ELSE rows
            /\ pc' = IF o = "raise" THEN "except" ELSE "check"
    /\ UNCHANGED <<wfTypes, wfEdges, loaded, runRow, runWrites, order, idx, status, result, context,
                   dispatched, raised, insertIssued, insertFailed, topoOut, sched, cronOut, schedVars, resolveVars, laterVars>>

\* node_check that stays on the node it has just stored
node_check_repeat ==
    /\ pc = "check"
    /\ IF status = "success"
       THEN /\ context' = [context EXCEPT ![CurrentNode] = result]
            /\ pc' = "loop"
       ELSE /\ pc' = "engine_done"
            /\ UNCHANGED context
    /\ UNCHANGED <<wfTypes, wfEdges, loaded, runRow, runWrites, faults, order, idx, status, result,
                   rows, dispatched, raised, insertIssued, insertFailed, updateIssued,
                   updateFailed, topoOut, sched, cronOut, schedVars, resolveVars, laterVars>>

\* node_check that goes on to the next node after a failed node
node_check_nobreak ==
    /\ pc = "check"
    /\ context' = IF status = "success" THEN [context EXCEPT ![CurrentNode] = result]
                  ELSE context
    /\ idx' = idx + 1
    /\ pc' = "loop"
    /\ UNCHANGED <<wfTypes, wfEdges, loaded, runRow, runWrites, faults, order, status,
                   result, rows, dispatched, raised, insertIssued, insertFailed,
                   updateIssued, updateFailed, topoOut, sched, cronOut, schedVars, resolveVars, laterVars>>

\* if status == 'success': context[node['id']] = result  else: break
node_check ==
    /\ pc = "check"
    /\ IF status = "success"
       THEN /\ context' = [context EXCEPT ![CurrentNode] = result]
            /\ idx' = idx + 1
            /\ pc' = "loop"
       ELSE /\ pc' = "engine_done"
            /\ UNCHANGED <<context, idx>>
    /\ UNCHANGED <<wfTypes, wfEdges, loaded, runRow, runWrites, faults, order, status, result, rows,
                   dispatched, raised, insertIssued, insertFailed, updateIssued,
                   updateFailed, topoOut, sched, cronOut, schedVars, resolveVars, laterVars>>

\* -------------------------------------------------- schedule_obj_to_cron
\* A field of the schedule object: kind "absent" (key missing), "none" (null),
\* "int" (value i) or "str" (characters s).
Absent == [k |-> "absent", i |-> 0, s |-> <<>>]
None == [k |-> "none", i |-> 0, s |-> <<>>]
IntVal(n) == [k |-> "int", i |-> n, s |-> <<>>]
StrVal(chars) == [k |-> "str", i |-> 0, s |-> chars]

Digits == <<"0", "1", "2", "3", "4", "5", "6", "7", "8", "9">>

RECURSIVE NatToStr(_)
NatToStr(n) ==
    IF n < 10 THEN <<Digits[n + 1]>>
    ELSE NatToStr(n \div 10) \o <<Digits[(n % 10) + 1]>>

\* str(v) as the f-string formats it
Format(v) ==
    CASE v.k = "int" -> IF v.i < 0 THEN <<"-">> \o NatToStr(-v.i) ELSE NatToStr(v.i)
      [] v.k = "str" -> v.s
      [] OTHER -> <<"N", "o", "n", "e">>

\* schedule.get(key, default)
Get(v, default) == IF v.k = "absent" THEN IntVal(default) ELSE v

\* v or default
Or(v, default) ==
    IF (v.k = "int" /\ v.i # 0) \/ (v.k = "str" /\ v.s # <<>>) THEN v ELSE IntVal(default)

Sp == <<" ">>
Star == <<"*">>
Every(v) == <<"*", "/">> \o Format(v)

\* schedule_obj_to_cron with hour and minute exchanged in the Days branch
schedule_obj_to_cron_swapped(schedule) ==
    LET count == Or(Get(schedule.count, 1), 1)
        hour == Or(Get(schedule.hour, 0), 0)
        minute == Or(Get(schedule.minute, 0), 0)
        Ok(c) == [ok |-> TRUE, cron |-> c]
    IN  CASE ~schedule.present -> [ok |-> FALSE, cron |-> <<>>]
          [] schedule.present /\ schedule.interval = "Minutes" ->
                Ok(Every(count) \o Sp \o Star \o Sp \o Star \o Sp \o Star \o Sp \o Star)
          [] schedule.present /\ schedule.interval = "Hours" ->
                Ok(Format(minute) \o Sp \o Every(count) \o Sp \o Star \o Sp \o Star \o Sp \o Star)
          [] schedule.present /\ schedule.interval = "Days" ->
                Ok(Format(hour) \o Sp \o Format(minute) \o Sp \o Every(count) \o Sp \o Star
                   \o Sp \o Star)
          [] schedule.present /\ schedule.interval = "Weeks" ->
                Ok(Format(minute) \o Sp \o Format(hour) \o Sp \o Star \o Sp \o Star \o Sp \o Star)
          [] schedule.present /\ schedule.interval = "Months" ->
                Ok(Format(minute) \o Sp \o Format(hour) \o Sp \o Format(count) \o Sp \o Star
                   \o Sp \o Star)
          [] OTHER -> [ok |-> FALSE, cron |-> <<>>]

\* [ok |-> TRUE, cron |-> the characters of the cron string], or ok = FALSE
\* when the function raises
schedule_obj_to_cron(schedule) ==
    LET count == Or(Get(schedule.count, 1), 1)
        hour == Or(Get(schedule.hour, 0), 0)
        minute == Or(Get(schedule.minute, 0), 0)
        Ok(c) == [ok |-> TRUE, cron |-> c]
    IN  CASE ~schedule.present -> [ok |-> FALSE, cron |-> <<>>]
          [] schedule.present /\ schedule.interval = "Minutes" ->
                Ok(Every(count) \o Sp \o Star \o Sp \o Star \o Sp \o Star \o Sp \o Star)
          [] schedule.present /\ schedule.interval = "Hours" ->
                Ok(Format(minute) \o Sp \o Every(count) \o Sp \o Star \o Sp \o Star \o Sp \o Star)
          [] schedule.present /\ schedule.interval = "Days" ->
                Ok(Format(minute) \o Sp \o Format(hour) \o Sp \o Every(count) \o Sp \o Star
                   \o Sp \o Star)
          [] schedule.present /\ schedule.interval = "Weeks" ->
                Ok(Format(minute) \o Sp \o Format(hour) \o Sp \o Star \o Sp \o Star \o Sp \o Star)
          [] schedule.present /\ schedule.interval = "Months" ->
                Ok(Format(minute) \o Sp \o Format(hour) \o Sp \o Format(count) \o Sp \o Star
                   \o Sp \o Star)
          [] OTHER -> [ok |-> FALSE, cron |-> <<>>]

\* ------------------------------------------------------------------ Spec
IdleLaterVars ==
    /\ iwrites = <<>>
    /\ inFlight = <<>>
    /\ runs = <<>>
    /\ runRows = <<>>
    /\ nodeRows = <<>>
    /\ nodeIn = <<>>
    /\ nodeOut = [called |-> FALSE, value |-> <<>>]

IdleResolveVars ==
    /\ rexpr = <<>>
    /\ rcontext = <<>>
    /\ rself = <<>>
    /\ rout = [called |-> FALSE, out |-> <<>>]
    /\ ipc = "idle"
    /\ inode = <<>>
    /\ icontext = <<>>
    /\ received = [called |-> FALSE, inputs |-> <<>>]

IdleSchedVars ==
    /\ jobs = {}
    /\ wfActive = <<>>
    /\ wfCron = <<>>
    /\ celeryQueue = <<>>
    /\ lastCall = [op |-> "none", id |-> 0, outcome |-> "none", cron |-> <<>>]

IdleTopo == [called |-> FALSE, res |-> [ok |-> FALSE, order |-> <<>>]]
IdleSched == [present |-> FALSE, interval |-> "None", count |-> Absent, hour |-> Absent,
              minute |-> Absent]
IdleCron == [called |-> FALSE, res |-> [ok |-> FALSE, cron |-> <<>>]]

Workflows ==
    {<<t, e>> : t \in [1..MaxNodes -> NodeTypes], e \in SeqsUpTo(Pairs(MaxNodes), MaxEdges)}

IdleRun ==
    /\ runRow = "none"
    /\ runWrites = <<>>
    /\ faults = 0
    /\ loaded = FALSE
    /\ order = <<>>
    /\ idx = 1
    /\ status = "none"
    /\ result = "none"
    /\ dispatched = {}
    /\ raised = {}
    /\ insertIssued = {}
    /\ insertFailed = {}
    /\ updateIssued = {}
    /\ updateFailed = {}

Init ==
    /\ \E w \in Workflows : wfTypes = w[1] /\ wfEdges = w[2]
    /\ pc = "queued"
    /\ IdleRun
    /\ context = [n \in 1..MaxNodes |-> "absent"]
    /\ rows = [n \in 1..MaxNodes |-> NoRow]
    /\ topoOut = IdleTopo
    /\ sched = IdleSched
    /\ cronOut = IdleCron
    /\ IdleSchedVars
    /\ IdleResolveVars
    /\ IdleLaterVars

Next ==
    \/ run_job_insert
    \/ execute_workflow_load
    \/ execute_workflow_sort
    \/ loop_exit
    \/ loop_skip_trigger
    \/ loop_skip_no_manifest
    \/ loop_enter
    \/ node_insert
    \/ node_dispatch
    \/ node_update
    \/ node_check
    \/ run_job_mark_success
    \/ run_job_mark_failed

Spec == Init /\ [][Next]_vars

\* -------------------------------------------------------------- SpecTopo
\* topological_sort on every node list of up to MaxTopoNodes nodes and every
\* edge list of up to MaxTopoEdges edges between them.
TopoInit ==
    /\ \E n \in 1..MaxTopoNodes :
        /\ wfTypes = [i \in 1..n |-> "Action"]
        /\ wfEdges \in SeqsUpTo(Pairs(n), MaxTopoEdges)
    /\ pc = "idle"
    /\ IdleRun
    /\ context = <<>>
    /\ rows = <<>>
    /\ topoOut = IdleTopo
    /\ sched = IdleSched
    /\ cronOut = IdleCron
    /\ IdleSchedVars
    /\ IdleResolveVars
    /\ IdleLaterVars

topo_call ==
    /\ ~topoOut.called
    /\ topoOut' = [called |-> TRUE, res |-> topological_sort(Len(wfTypes), wfEdges)]
    /\ UNCHANGED <<wfTypes, wfEdges, runVars, sched, cronOut, schedVars, resolveVars, laterVars>>

TopoNext == topo_call

SpecTopo == TopoInit /\ [][TopoNext]_vars

\* -------------------------------------------------------------- SpecCron
\* schedule_obj_to_cron on schedule objects whose interval is one of the five
\* recognized values, another string or null, and whose numeric fields are
\* missing, null, a string, or an integer from one below to one above the range.
Intervals == {"Minutes", "Hours", "Days", "Weeks", "Months"}
FieldValues(lo, hi) == {Absent, None, StrVal(<<"x">>)} \cup {IntVal(n) : n \in (lo - 1)..(hi + 1)}

Schedules ==
    {IdleSched} \cup
    [present : {TRUE}, interval : Intervals \cup {"Years", "None"},
     count : FieldValues(1, MaxCount), hour : FieldValues(0, 23),
     minute : FieldValues(0, 59)]

CronInit ==
    /\ sched \in Schedules
    /\ cronOut = IdleCron
    /\ wfTypes = <<>>
    /\ wfEdges = <<>>
    /\ pc = "idle"
    /\ IdleRun
    /\ context = <<>>
    /\ rows = <<>>
    /\ topoOut = IdleTopo
    /\ IdleSchedVars
    /\ IdleResolveVars
    /\ IdleLaterVars

cron_call ==
    /\ ~cronOut.called
    /\ cronOut' = [called |-> TRUE, res |-> schedule_obj_to_cron(sched)]
    /\ UNCHANGED <<wfTypes, wfEdges, runVars, topoOut, sched, schedVars, resolveVars, laterVars>>

CronNext == cron_call

SpecCron == CronInit /\ [][CronNext]_vars

\* ------------------------------------------------------- graph vocabulary
RECURSIVE PathWithin(_, _, _, _)
\* a path of at least one and at most k edges leads from a to b
PathWithin(edges, a, b, k) ==
    /\ k > 0
    /\ \E i \in 1..Len(edges) :
        /\ edges[i][1] = a
        /\ (edges[i][2] = b \/ PathWithin(edges, edges[i][2], b, k - 1))

Acyclic(n, edges) == \A a \in 1..n : ~PathWithin(edges, a, a, n)

\* position of node x in the sequence ord, 0 when absent
Pos(ord, x) ==
    IF \E i \in 1..Len(ord) : ord[i] = x
    THEN CHOOSE i \in 1..Len(ord) : ord[i] = x
    ELSE 0

NodeIds == Nodes(wfTypes)
Cyclic == ~Acyclic(Len(wfTypes), wfEdges)

\* ------------------------------------------------------------------ claims
\* C1: for an acyclic (nodes, edges) graph topological_sort returns an order
\* that contains every node exactly once and puts the source of every edge
\* strictly before its target.
C1_TopoOrderConsistent ==
    (topoOut.called /\ Acyclic(Len(wfTypes), wfEdges)) =>
        LET ord == topoOut.res.order
        IN  /\ topoOut.res.ok
            /\ Len(ord) = Len(wfTypes)
            /\ \A x \in NodeIds : Cardinality({i \in 1..Len(ord) : ord[i] = x}) = 1
            /\ \A i \in 1..Len(wfEdges) : Pos(ord, wfEdges[i][1]) < Pos(ord, wfEdges[i][2])

\* an acyclic graph with a chain of two edges whose order is not the declaration order
C1_Witness ==
    /\ topoOut.called
    /\ Acyclic(Len(wfTypes), wfEdges)
    /\ topoOut.res.ok
    /\ \E i, j \in 1..Len(wfEdges) : wfEdges[i][2] = wfEdges[j][1]
    /\ \E k \in 1..Len(topoOut.res.order) : topoOut.res.order[k] # k

\* C2: a workflow whose graph has a cycle never gets a node_executions row and
\* never has a node dispatched; once loaded, its run ends with exactly one
\* completion write, `failed`, and the row is `failed` when the store applied it.
C2_CyclicFailsBeforeDispatch ==
    Cyclic =>
        /\ \A n \in NodeIds : rows[n] = NoRow
        /\ insertIssued = {}
        /\ dispatched = {}
        /\ (loaded => runRow # "success")
        /\ (pc = "done" /\ loaded) =>
              /\ Len(runWrites) = 1
              /\ runWrites[1].status = "failed"
              /\ runRow = IF runWrites[1].outcome = "ok" THEN "failed" ELSE "running"

\* a finished run of a loaded cyclic workflow whose row is failed
C2_Witness ==
    /\ Cyclic
    /\ loaded
    /\ pc = "done"
    /\ runRow = "failed"

\* C3: once a node's handler has raised, no node later in the order is
\* dispatched and none gets a node_executions insert or row.
C3_FailFast ==
    \A n \in raised : \A m \in NodeIds :
        Pos(order, m) > Pos(order, n) =>
            /\ m \notin dispatched
            /\ m \notin insertIssued
            /\ rows[m] = NoRow

\* a finished run in which a handler raised and a later node that has a manifest
\* and a handler, and no edge from the failed node, was left out
C3_Witness ==
    /\ pc = "done"
    /\ \E n \in raised : \E m \in NodeIds :
        /\ Pos(order, m) > Pos(order, n)
        /\ wfTypes[m] = "Action"
        /\ \A i \in 1..Len(wfEdges) : wfEdges[i] # <<n, m>>

\* C4 (as claimed, for runs without a store failure): a finished run in which
\* a handler raised has the run row status `failed`.
C4_RaisedRunIsFailed ==
    (pc = "done" /\ faults = 0 /\ raised # {}) => runRow = "failed"

\* C5 (as claimed, for workflows whose node types all have a manifest and
\* runs without a store failure): when the run row is `success`, every
\* non-trigger node has a node_executions row with status `success`.
C5_SuccessMeansAllNodesSucceeded ==
    (runRow = "success" /\ faults = 0 /\ \A n \in NodeIds : HasManifest(wfTypes[n])) =>
        \A n \in NodeIds : wfTypes[n] # "Scheduler" => rows[n].status = "success"

\* the values by which the dispatcher reports an error without raising
ReportedErrors == {"nohandler", "errkey"}

\* C6 (as claimed): a reported error value is never stored as a context entry,
\* its node_executions row is never `success`, and once it was returned no
\* later node is dispatched.
C6_ReportedErrorStopsRun ==
    \A n \in NodeIds :
        /\ context[n] \notin ReportedErrors
        /\ (rows[n].output \in ReportedErrors => rows[n].status = "failed")
        /\ (rows[n].output \in ReportedErrors =>
                \A m \in NodeIds : Pos(order, m) > Pos(order, n) => m \notin dispatched)

\* nodes that have a manifest and are not the trigger
Dispatchable == {n \in NodeIds : wfTypes[n] # "Scheduler" /\ HasManifest(wfTypes[n])}
NoManifestNodes == {n \in NodeIds : ~HasManifest(wfTypes[n])}

C9_WriteFailureIsolated ==
    pc = "done" =>
        /\ \A n \in insertFailed : n \in dispatched
        /\ \A n \in (updateFailed \cap dispatched) \ raised : context[n] # "absent"

\* ------------------------------------------------------- cron vocabulary
RECURSIVE Split(_, _)
\* cron.split(): the maximal runs of characters other than the space; cur is
\* the run being read
Split(chars, cur) ==
    IF chars = <<>> THEN (IF cur = <<>> THEN <<>> ELSE <<cur>>)
    ELSE IF Head(chars) = " "
         THEN (IF cur = <<>> THEN <<>> ELSE <<cur>>) \o Split(Tail(chars), <<>>)
         ELSE Split(Tail(chars), Append(cur, Head(chars)))

IsDigit(c) == \E d \in 1..10 : Digits[d] = c
DigitVal(c) == (CHOOSE d \in 1..10 : Digits[d] = c) - 1

RECURSIVE ParseNat(_, _)
\* the number a string of decimal digits without a leading zero denotes, read
\* left to right with acc the value so far; -1 for any other string
ParseNat(chars, acc) ==
    IF chars = <<>> THEN acc
    ELSE IF ~IsDigit(Head(chars)) THEN -1
         ELSE ParseNat(Tail(chars), 10 * acc + DigitVal(Head(chars)))

IsNumber(f, n) ==
    /\ f # <<>>
    /\ (Len(f) > 1 => f[1] # "0")
    /\ ParseNat(f, 0) = n
IsEvery(f, n) == Len(f) > 2 /\ f[1] = "*" /\ f[2] = "/" /\ IsNumber(SubSeq(f, 3, Len(f)), n)
IsStar(f) == f = <<"*">>

\* the value of a numeric field that is in range, or missing with its default
InRange(v, lo, hi) == v.k = "absent" \/ (v.k = "int" /\ v.i >= lo /\ v.i <= hi)
Value(v, default) == IF v.k = "absent" THEN default ELSE v.i

ValidSchedule(sc) ==
    /\ sc.present
    /\ sc.interval \in Intervals
    /\ (sc.count.k = "absent" \/ (sc.count.k = "int" /\ sc.count.i >= 1))
    /\ InRange(sc.hour, 0, 23)
    /\ InRange(sc.minute, 0, 59)

\* C10: for a schedule with a recognized interval and in-range integer fields
\* (a missing field counts as its default: count 1, hour 0, minute 0) the
\* result is the five-field cron of the table: Minutes `*/count * * * *`,
\* Hours `minute */count * * *`, Days `minute hour */count * *`,
\* Weeks `minute hour * * *`, Months `minute hour count * *`.
C10_CronTable ==
    (cronOut.called /\ ValidSchedule(sched)) =>
        LET f == Split(cronOut.res.cron, <<>>)
            count == Value(sched.count, 1)
            hour == Value(sched.hour, 0)
            minute == Value(sched.minute, 0)
        IN  /\ cronOut.res.ok
            /\ Len(f) = 5
            /\ Len(cronOut.res.cron) = Len(f[1]) + Len(f[2]) + Len(f[3]) + Len(f[4]) + Len(f[5]) + 4
            /\ IsStar(f[4]) /\ IsStar(f[5])
            /\ CASE sched.interval = "Minutes" ->
                      IsEvery(f[1], count) /\ IsStar(f[2]) /\ IsStar(f[3])
                 [] sched.interval = "Hours" ->
                      IsNumber(f[1], minute) /\ IsEvery(f[2], count) /\ IsStar(f[3])
                 [] sched.interval = "Days" ->
                      IsNumber(f[1], minute) /\ IsNumber(f[2], hour) /\ IsEvery(f[3], count)
                 [] sched.interval = "Weeks" ->
                      IsNumber(f[1], minute) /\ IsNumber(f[2], hour) /\ IsStar(f[3])
                 [] sched.interval = "Months" ->
                      IsNumber(f[1], minute) /\ IsNumber(f[2], hour) /\ IsNumber(f[3], count)
            /\ (sched = [present |-> TRUE, interval |-> "Minutes", count |-> IntVal(5),
                         hour |-> Absent, minute |-> Absent])
                  => cronOut.res.cron = <<"*", "/", "5", " ", "*", " ", "*", " ", "*", " ", "*">>
            /\ (sched = [present |-> TRUE, interval |-> "Hours", count |-> IntVal(2),
                         hour |-> Absent, minute |-> IntVal(30)])
                  => cronOut.res.cron = <<"3", "0", " ", "*", "/", "2", " ", "*", " ", "*", " ", "*">>
            /\ (sched = [present |-> TRUE, interval |-> "Days", count |-> IntVal(3),
                         hour |-> IntVal(9), minute |-> IntVal(15)])
                  => cronOut.res.cron = <<"1", "5", " ", "9", " ", "*", "/", "3", " ", "*", " ", "*">>

\* the Days example of the specification: count 3, hour 9, minute 15
C10_Witness ==
    /\ cronOut.called
    /\ ValidSchedule(sched)
    /\ sched.interval = "Days"
    /\ sched.count = IntVal(3) /\ sched.hour = IntVal(9) /\ sched.minute = IntVal(15)
    /\ cronOut.res.ok

\* ------------------------------------------------------ croniter.croniter
\* One field of a cron expression as croniter accepts it: `*`, `*/n` with a
\* step n >= 1, or a number within the field's range.
croniter_field(f, lo, hi) ==
    \/ IsStar(f)
    \/ Len(f) > 2 /\ f[1] = "*" /\ f[2] = "/" /\ ParseNat(SubSeq(f, 3, Len(f)), 0) >= 1
    \/ f # <<>> /\ ParseNat(f, 0) >= lo /\ ParseNat(f, 0) <= hi

\* croniter.croniter(schedule_cron) does not raise: five fields, minute 0..59,
\* hour 0..23, day of month 1..31, month 1..12, day of week 0..7
croniter_valid(cron) ==
    LET f == Split(cron, <<>>)
    IN  /\ Len(f) = 5
        /\ croniter_field(f[1], 0, 59)
        /\ croniter_field(f[2], 0, 23)
        /\ croniter_field(f[3], 1, 31)
        /\ croniter_field(f[4], 1, 12)
        /\ croniter_field(f[5], 0, 7)

Accepted_unvalidated(schedule) == TRUE

\* step 4 of activate_workflow: the schedule is translated and the cron passes
\* the croniter check
Accepted(schedule) ==
    LET r == schedule_obj_to_cron(schedule)
    IN  r.ok /\ croniter_valid(r.cron)

\* a numeric field that is not an integer, or an integer outside lo..hi
BadField(v, lo, hi) == v.k = "str" \/ (v.k = "int" /\ (v.i < lo \/ v.i > hi))

\* C11 (as claimed): a schedule whose count, hour or minute is not an integer
\* or is out of range (count < 1, hour outside 0..23, minute outside 0..59) is
\* rejected by translation and validation, whatever its interval.
C11_BadFieldRejected ==
    (cronOut.called /\ sched.present
       /\ (\/ sched.count.k = "str" \/ (sched.count.k = "int" /\ sched.count.i < 1)
           \/ BadField(sched.hour, 0, 23)
           \/ BadField(sched.minute, 0, 59)))
      => ~(cronOut.res.ok /\ croniter_valid(cronOut.res.cron))

\* ---------------------------------------------------------------------------
\* The trigger registry: schedule_job and remove_job over the APScheduler
\* job store.  A job is [id, cron]; the id is the formatted workflow id.
\* ---------------------------------------------------------------------------

MaxWorkflows == 2
MaxQueue == 2

WfIds == 1..MaxWorkflows
Min(S) == CHOOSE x \in S : \A y \in S : x <= y

\* f'workflow_{workflow_id}'
JobId(workflow_id) == <<"workflow_", workflow_id>>

\* one field of a CronTrigger: "*", "*/n" with a step no larger than the span
\* of the field, or a number of the field's range
CronTrigger_field(f, lo, hi) ==
    \/ IsStar(f)
    \/ /\ Len(f) > 2 /\ f[1] = "*" /\ f[2] = "/"
       /\ ParseNat(SubSeq(f, 3, Len(f)), 0) >= 1
       /\ ParseNat(SubSeq(f, 3, Len(f)), 0) <= hi - lo
    \/ f # <<>> /\ ParseNat(f, 0) >= lo /\ ParseNat(f, 0) <= hi

\* cron.split() unpacks into exactly five fields and CronTrigger takes them
CronTrigger(cron) ==
    LET f == Split(cron, <<>>)
    IN  /\ Len(f) = 5
        /\ CronTrigger_field(f[1], 0, 59)
        /\ CronTrigger_field(f[2], 0, 23)
        /\ CronTrigger_field(f[3], 1, 31)
        /\ CronTrigger_field(f[4], 1, 12)
        /\ CronTrigger_field(f[5], 0, 6)

\* scheduler.add_job(..., id=job_id, replace_existing=True)
add_job(js, job_id, cron) ==
    {j \in js : j.id # job_id} \cup {[id |-> job_id, cron |-> cron]}

schedule_job_additive(js, workflow_id, cron) ==
    [ok |-> CronTrigger(cron),
     jobs |-> IF CronTrigger(cron)
              THEN js \cup {[id |-> JobId(workflow_id), cron |-> cron]}
              ELSE js]

\* schedule_job: ok is FALSE when the call raises, and then the store is as before
schedule_job(js, workflow_id, cron) ==
    [ok |-> CronTrigger(cron),
     jobs |-> IF CronTrigger(cron) THEN add_job(js, JobId(workflow_id), cron) ELSE js]

remove_job_all(js, workflow_id) ==
    [found |-> \E j \in js : j.id = JobId(workflow_id),
     jobs |-> {}]

\* remove_job: scheduler.remove_job raises JobLookupError for an unknown id,
\* which the handler catches and reports as a warning
remove_job(js, workflow_id) ==
    [found |-> \E j \in js : j.id = JobId(workflow_id),
     jobs |-> {j \in js : j.id # JobId(workflow_id)}]

Call(op, id, outcome, cron) == [op |-> op, id |-> id, outcome |-> outcome, cron |-> cron]

\* the cron strings the registry is called with: the translations of a few
\* schedules, and strings CronTrigger refuses
RegCrons ==
    { schedule_obj_to_cron([present |-> TRUE, interval |-> "Minutes", count |-> IntVal(MaxCount),
                            hour |-> Absent, minute |-> Absent]).cron,
      schedule_obj_to_cron([present |-> TRUE, interval |-> "Hours", count |-> IntVal(2),
                            hour |-> Absent, minute |-> IntVal(30)]).cron,
      schedule_obj_to_cron([present |-> TRUE, interval |-> "Weeks", count |-> Absent,
                            hour |-> IntVal(9), minute |-> Absent]).cron,
      schedule_obj_to_cron([present |-> TRUE, interval |-> "Days", count |-> Absent,
                            hour |-> Absent, minute |-> Absent]).cron,
      <<"*", " ", "*", " ", "*", " ", "*">>,
      <<"6", "0", " ", "*", " ", "*", " ", "*", " ", "*">> }

schedule_job_call ==
    \E w \in WfIds, c \in RegCrons :
        LET r == schedule_job(jobs, w, c)
        IN  /\ jobs' = r.jobs
            /\ lastCall' = Call("schedule_job", w, IF r.ok THEN "ok" ELSE "raise", c)
            /\ UNCHANGED <<resolveVars, laterVars, wfTypes, wfEdges, runVars, topoOut, sched, cronOut,
                           wfActive, wfCron, celeryQueue>>

remove_job_call ==
    \E w \in WfIds :
        LET r == remove_job(jobs, w)
        IN  /\ jobs' = r.jobs
            /\ lastCall' = Call("remove_job", w, IF r.found THEN "ok" ELSE "warned", <<>>)
            /\ UNCHANGED <<resolveVars, laterVars, wfTypes, wfEdges, runVars, topoOut, sched, cronOut,
                           wfActive, wfCron, celeryQueue>>

\* SpecRegistry: any sequence of schedule_job and remove_job calls on a
\* scheduler that starts with no jobs
RegistryInit ==
    /\ wfTypes = <<>>
    /\ wfEdges = <<>>
    /\ pc = "idle"
    /\ IdleRun
    /\ context = <<>>
    /\ rows = <<>>
    /\ topoOut = IdleTopo
    /\ sched = IdleSched
    /\ cronOut = IdleCron
    /\ jobs = {}
    /\ wfActive = <<>>
    /\ wfCron = <<>>
    /\ celeryQueue = <<>>
    /\ lastCall = Call("none", 0, "none", <<>>)
    /\ IdleResolveVars
    /\ IdleLaterVars

RegistryNext == schedule_job_call \/ remove_job_call

SpecRegistry == RegistryInit /\ [][RegistryNext]_vars

JobsOf(js, w) == {j \in js : j.id = JobId(w)}

\* C13: the registry holds at most one trigger per workflow id; after a
\* successful register(w, c) the one trigger of w has cron c; and a register
\* call leaves the triggers of every other workflow id as they were.
C13_RegisterReplaces ==
    /\ [](/\ \A j1, j2 \in jobs : j1.id = j2.id => j1 = j2
          /\ (lastCall.op = "schedule_job" /\ lastCall.outcome = "ok")
               => JobsOf(jobs, lastCall.id)
                    = {[id |-> JobId(lastCall.id), cron |-> lastCall.cron]})
    /\ [][lastCall'.op = "schedule_job"
            => \A w \in WfIds \ {lastCall'.id} : JobsOf(jobs', w) = JobsOf(jobs, w)]_vars

\* a register call has just succeeded for one workflow while another
\* workflow holds a trigger with a different cron
C13_Witness ==
    /\ lastCall.op = "schedule_job" /\ lastCall.outcome = "ok"
    /\ \E j \in jobs : j.id # JobId(lastCall.id) /\ j.cron # lastCall.cron

\* C14: remove_job never raises; removing an id that has no trigger leaves the
\* registry unchanged, and a second remove gives the registry of the first.
C14_RemoveIdempotent ==
    /\ [](/\ lastCall.op = "remove_job" => lastCall.outcome \in {"ok", "warned"}
          /\ lastCall.op = "remove_job" => JobsOf(jobs, lastCall.id) = {}
          /\ \A w \in WfIds :
                remove_job(remove_job(jobs, w).jobs, w).jobs = remove_job(jobs, w).jobs)
    /\ [][(lastCall'.op = "remove_job" /\ JobsOf(jobs, lastCall'.id) = {})
            => (lastCall'.outcome = "warned" /\ jobs' = jobs)]_vars

\* a remove call found no trigger for its id while another workflow holds one
C14_Witness ==
    /\ lastCall.op = "remove_job" /\ lastCall.outcome = "warned"
    /\ jobs # {}

\* ---------------------------------------------------------------------------
\* Activation and deactivation: activate_workflow, deactivate_workflow, the
\* trigger's fire and the worker taking a request off the queue.
\* ---------------------------------------------------------------------------

\* int(v): an integer is kept, a string of digits is parsed, anything else raises
PyInt(v) ==
    CASE v.k = "int" -> [ok |-> TRUE, v |-> v]
      [] v.k = "str" /\ v.s # <<>> /\ ParseNat(v.s, 0) >= 0
           -> [ok |-> TRUE, v |-> IntVal(ParseNat(v.s, 0))]
      [] OTHER -> [ok |-> FALSE, v |-> v]

Sched(interval, count, hour, minute) ==
    [present |-> TRUE, interval |-> interval, count |-> count, hour |-> hour, minute |-> minute]

\* The Scheduler node of the stored workflow: kind "none" when the workflow has
\* no Scheduler node, "data" with a schedule under data.schedule, "values" with
\* the fields under values, "bare" with neither.
SchedulerNodes ==
    { [kind |-> "none", schedule |-> IdleSched],
      [kind |-> "bare", schedule |-> IdleSched],
      [kind |-> "data", schedule |-> Sched("Minutes", IntVal(MaxCount), Absent, Absent)],
      [kind |-> "data", schedule |-> Sched("Hours", IntVal(2), Absent, IntVal(30))],
      [kind |-> "data", schedule |-> Sched("Minutes", IntVal(100), Absent, Absent)],
      [kind |-> "data", schedule |-> Sched("Years", IntVal(1), Absent, Absent)],
      [kind |-> "data", schedule |-> Sched("Days", Absent, IntVal(24), Absent)],
      [kind |-> "values", schedule |-> Sched("Hours", StrVal(<<"2">>), Absent, IntVal(30))],
      [kind |-> "values", schedule |-> Sched("Hours", StrVal(<<"x">>), Absent, Absent)] }

\* the defaults of the Scheduler manifest, as build_schedule_from_definition
\* reads them: with an interval, or with none declared
ManifestSchedules ==
    { Sched("Days", IntVal(1), IntVal(0), IntVal(0)),
      Sched("None", IntVal(1), IntVal(0), IntVal(0)) }

\* step 3 of activate_workflow: the schedule object of the node; ok is FALSE
\* when an int() conversion of the values raises
schedule_obj_of(node, manifest) ==
    CASE node.kind = "data" -> [ok |-> TRUE, schedule |-> node.schedule]
      [] node.kind = "values" ->
           LET c == PyInt(Get(node.schedule.count, 1))
               h == PyInt(Get(node.schedule.hour, 0))
               m == PyInt(Get(node.schedule.minute, 0))
           IN  [ok |-> c.ok /\ h.ok /\ m.ok,
                schedule |-> Sched(node.schedule.interval, c.v, h.v, m.v)]
      [] OTHER -> [ok |-> TRUE, schedule |-> manifest]

\* activate_workflow(id) on the stored Scheduler node, with f, u the outcomes
\* of the two store calls and d the outcome of run_job.delay: the HTTP outcome,
\* whether the store row was updated, the job store after the call, whether a
\* run request was enqueued, and the cron of step 4 (<<>> when step 4 was not
\* reached or the translation raised).
activation(js, id, node, manifest, f, u, d) ==
    LET so == schedule_obj_of(node, manifest)
        r == schedule_obj_to_cron(so.schedule)
        sj == schedule_job(js, id, r.cron)
        Out(o, upd, j, enq, c) ==
            [outcome |-> o, updated |-> upd, jobs |-> j, enqueued |-> enq, cron |-> c]
    IN  IF f = "raise" THEN Out("500", FALSE, js, FALSE, <<>>)
        ELSE IF f = "nodata" THEN Out("404", FALSE, js, FALSE, <<>>)
        ELSE IF node.kind = "none" THEN Out("400 No Scheduler node found", FALSE, js, FALSE, <<>>)
        ELSE IF ~so.ok THEN Out("500", FALSE, js, FALSE, <<>>)
        ELSE IF ~Accepted(so.schedule) THEN Out("400 Invalid schedule", FALSE, js, FALSE, r.cron)
        ELSE IF u # "ok" THEN Out("500", FALSE, js, FALSE, r.cron)
        ELSE IF ~sj.ok THEN Out("500", TRUE, js, FALSE, r.cron)
        ELSE IF d = "raise" THEN Out("500", TRUE, sj.jobs, FALSE, r.cron)
        ELSE Out("204", TRUE, sj.jobs, TRUE, r.cron)

\* Activation and deactivation are followed for one stored workflow: every
\* store call of the two handlers is .eq("id", id) and every registry call is
\* for the job id of that workflow.
StoredIds == {Min(WfIds)}

\* the outcomes of the fetch, of the update and of run_job.delay in one call; a
\* call that is not reached has no outcome of its own
CallOutcomes ==
    {o \in StoreOutcomes \X StoreOutcomes \X {"ok", "raise"} :
        /\ o[1] # "ok" => o[2] = "ok"
        /\ o[2] # "ok" => o[3] = "ok"}

activate_workflow ==
    \E id \in StoredIds, node \in SchedulerNodes, manifest \in ManifestSchedules,
       o \in CallOutcomes :
        LET a == activation(jobs, id, node, manifest, o[1], o[2], o[3])
        IN  /\ a.enqueued => Len(celeryQueue) < MaxQueue
            /\ jobs' = a.jobs
            /\ wfActive' = IF a.updated THEN [wfActive EXCEPT ![id] = TRUE] ELSE wfActive
            /\ wfCron' = IF a.updated THEN [wfCron EXCEPT ![id] = a.cron] ELSE wfCron
            /\ celeryQueue' = IF a.enqueued THEN Append(celeryQueue, id) ELSE celeryQueue
            /\ lastCall' = Call("activate", id, a.outcome, a.cron)
            /\ UNCHANGED <<resolveVars, laterVars, wfTypes, wfEdges, runVars, topoOut, sched, cronOut>>

\* deactivate_workflow(id): the job is removed first, then the row is updated
deactivate_workflow ==
    \E id \in StoredIds, u \in StoreOutcomes :
        /\ jobs' = remove_job(jobs, id).jobs
        /\ wfActive' = IF u = "ok" THEN [wfActive EXCEPT ![id] = FALSE] ELSE wfActive
        /\ lastCall' = Call("deactivate", id, IF u = "ok" THEN "204" ELSE "500", <<>>)
        /\ UNCHANGED <<resolveVars, laterVars, wfTypes, wfEdges, runVars, topoOut, sched, cronOut, wfCron, celeryQueue>>

\* a registered trigger fires: the job's function calls run_job.delay for the
\* workflow id the job was registered with
trigger_fire ==
    \E j \in jobs, d \in IF Len(celeryQueue) < MaxQueue THEN {"ok", "raise"} ELSE {"raise"} :
        /\ celeryQueue' = IF d = "ok" THEN Append(celeryQueue, j.id[2]) ELSE celeryQueue
        /\ lastCall' = Call("fire", j.id[2], d, <<>>)
        /\ UNCHANGED <<resolveVars, laterVars, wfTypes, wfEdges, runVars, topoOut, sched, cronOut, jobs, wfActive, wfCron>>

\* a Celery worker takes the oldest request and starts run_job for it
worker_take ==
    /\ celeryQueue # <<>>
    /\ celeryQueue' = Tail(celeryQueue)
    /\ lastCall' = Call("run_job", Head(celeryQueue), "started", <<>>)
    /\ UNCHANGED <<resolveVars, laterVars, wfTypes, wfEdges, runVars, topoOut, sched, cronOut, jobs, wfActive, wfCron>>

ActivateInit ==
    /\ wfTypes = <<>>
    /\ wfEdges = <<>>
    /\ pc = "idle"
    /\ IdleRun
    /\ context = <<>>
    /\ rows = <<>>
    /\ topoOut = IdleTopo
    /\ sched = IdleSched
    /\ cronOut = IdleCron
    /\ jobs = {}
    /\ wfActive = [w \in StoredIds |-> FALSE]
    /\ wfCron = [w \in StoredIds |-> <<>>]
    /\ celeryQueue = <<>>
    /\ lastCall = Call("none", 0, "none", <<>>)
    /\ IdleResolveVars
    /\ IdleLaterVars

ActivateNext == activate_workflow \/ deactivate_workflow \/ trigger_fire \/ worker_take

SpecActivate == ActivateInit /\ [][ActivateNext]_vars

\* C12: an activation whose schedule does not pass step 4 (the translation
\* raises or croniter refuses the cron) registers and replaces no trigger,
\* enqueues no run and leaves is_active and schedule_cron of the store as they
\* were.
C12_FailClosed ==
    [][(/\ lastCall'.op = "activate"
        /\ lastCall'.outcome # "404"
        /\ (lastCall'.cron = <<>> \/ ~croniter_valid(lastCall'.cron)))
         => UNCHANGED <<jobs, celeryQueue, wfActive, wfCron>>]_vars

\* an activation was refused as an invalid schedule while the workflow holds
\* a trigger from an earlier activation and is marked active
C12_Witness ==
    /\ lastCall.op = "activate"
    /\ lastCall.outcome = "400 Invalid schedule"
    /\ wfActive[lastCall.id]
    /\ JobsOf(jobs, lastCall.id) # {}

\* ---------------------------------------------------------------------------
\* resolve_references: templates over a context of node outputs.
\* A value is [t, i, s, l]: t the Python type, i the integer, s the characters
\* of a string, l the items of a list or the [k, v] entries of a dict.
\* ---------------------------------------------------------------------------

MaxListLen == 2

VNone == [t |-> "none", i |-> 0, s |-> <<>>, l |-> <<>>]
VInt(n) == [t |-> "int", i |-> n, s |-> <<>>, l |-> <<>>]
VStr(chars) == [t |-> "str", i |-> 0, s |-> chars, l |-> <<>>]
VList(items) == [t |-> "list", i |-> 0, s |-> <<>>, l |-> items]
VDict(entries) == [t |-> "dict", i |-> 0, s |-> <<>>, l |-> entries]

\* re.fullmatch(r"-?\d+", s) and int(s)
IsIntText(s) ==
    LET d == IF s # <<>> /\ s[1] = "-" THEN Tail(s) ELSE s
    IN  d # <<>> /\ \A n \in 1..Len(d) : IsDigit(d[n])
IntOf(s) == IF s[1] = "-" THEN 0 - ParseNat(Tail(s), 0) ELSE ParseNat(s, 0)

IntKey(n) == [t |-> "int", i |-> n, s |-> <<>>]
StrKey(chars) == [t |-> "str", i |-> 0, s |-> chars]

\* the longest prefix without "[", "." and "]": group 1 of the path regex
RECURSIVE DotRun(_)
DotRun(chars) ==
    IF chars = <<>> \/ Head(chars) \in {"[", ".", "]"} THEN <<>>
    ELSE <<Head(chars)>> \o DotRun(Tail(chars))

\* the position of the first "]", 0 when there is none
RECURSIVE CloseAt(_, _)
CloseAt(chars, n) ==
    IF n > Len(chars) THEN 0
    ELSE IF chars[n] = "]" THEN n ELSE CloseAt(chars, n + 1)

Quotes == {"'", "\""}

\* group 2 of the path regex: an integer, or a quoted run without quotes
BracketOk(inner) ==
    \/ IsIntText(inner)
    \/ /\ Len(inner) >= 3
       /\ inner[1] \in Quotes /\ inner[Len(inner)] \in Quotes
       /\ \A n \in 2..(Len(inner) - 1) : inner[n] \notin Quotes

\* parse_path: regex.finditer over the path, characters that start no match
\* are passed over
RECURSIVE parse_path(_)
parse_path(path) ==
    IF path = <<>> THEN <<>>
    ELSE IF Head(path) \notin {"[", ".", "]"}
    THEN LET dot_key == DotRun(path)
             rest == SubSeq(path, Len(dot_key) + 1, Len(path))
         IN  <<IF IsIntText(dot_key) THEN IntKey(IntOf(dot_key)) ELSE StrKey(dot_key)>>
                \o parse_path(rest)
    ELSE IF Head(path) = "[" /\ CloseAt(path, 1) > 0
            /\ BracketOk(SubSeq(path, 2, CloseAt(path, 1) - 1))
    THEN LET bracket_key == SubSeq(path, 2, CloseAt(path, 1) - 1)
             rest == SubSeq(path, CloseAt(path, 1) + 1, Len(path))
         IN  <<IF IsIntText(bracket_key) THEN IntKey(IntOf(bracket_key))
               ELSE StrKey(SubSeq(bracket_key, 2, Len(bracket_key) - 1))>>
                \o parse_path(rest)
    ELSE parse_path(Tail(path))

\* dict.get(key): the value under a string key, None for any other key
RECURSIVE DictGet(_, _)
DictGet(entries, key) ==
    IF entries = <<>> \/ key.t # "str" THEN VNone
    ELSE IF Head(entries).k = key.s THEN Head(entries).v
    ELSE DictGet(Tail(entries), key)

\* result[idx] inside try/except: Python takes idx in -n..n-1, a negative idx
\* counting from the end, and raises IndexError for any other
ListIndex(items, ix) ==
    LET n == Len(items)
    IN  IF ix >= 0 /\ ix < n THEN items[ix + 1]
        ELSE IF ix < 0 /\ ix >= 0 - n THEN items[n + ix + 1]
        ELSE VNone

\* step 3 of the replacer: walk the data source key by key
RECURSIVE Walk(_, _)
Walk(cur, keys) ==
    IF keys = <<>> \/ cur.t = "none" THEN cur
    ELSE LET key == Head(keys)
         IN  IF cur.t = "list" /\ key.t = "int"
             THEN LET ix == IF key.i >= 0 THEN key.i ELSE Len(cur.l) + key.i
                  IN  Walk(ListIndex(cur.l, ix), Tail(keys))
             ELSE IF cur.t = "dict" THEN Walk(DictGet(cur.l, key), Tail(keys))
             ELSE VNone

RECURSIVE Join(_, _)
Join(strs, sep) ==
    IF strs = <<>> THEN <<>>
    ELSE IF Len(strs) = 1 THEN strs[1]
    ELSE strs[1] \o sep \o Join(Tail(strs), sep)

\* json.dumps(value) with the default separators
RECURSIVE Dumps(_)
Dumps(v) ==
    CASE v.t = "int" -> Format(IntVal(v.i))
      [] v.t = "str" -> <<"\"">> \o v.s \o <<"\"">>
      [] v.t = "list" ->
           <<"[">> \o Join([n \in 1..Len(v.l) |-> Dumps(v.l[n])], <<",", " ">>) \o <<"]">>
      [] v.t = "dict" ->
           <<"{">> \o Join([n \in 1..Len(v.l) |->
                               <<"\"">> \o v.l[n].k \o <<"\"", ":", " ">> \o Dumps(v.l[n].v)],
                           <<",", " ">>) \o <<"}">>
      [] OTHER -> <<"n", "u", "l", "l">>

\* str(value) of a scalar
Str(v) == IF v.t = "int" THEN Format(IntVal(v.i)) ELSE v.s

\* A template is a sequence of parts as template_regex.sub cuts it: text
\* between matches, and matches with the node name of $('Name').json (<<>> for
\* $json) and the raw path.
Text(chars) == [ref |-> FALSE, text |-> chars, node |-> <<>>, path |-> <<>>]
Ref(node, path) == [ref |-> TRUE, text |-> <<>>, node |-> node, path |-> path]

\* match.group(0)
Raw(part) ==
    <<"{", "{", " ">>
      \o (IF part.node = <<>> THEN <<"$", "j", "s", "o", "n">>
          ELSE <<"$", "(", "'">> \o part.node \o <<"'", ")", ".", "j", "s", "o", "n">>)
      \o <<".">> \o part.path \o <<" ", "}", "}">>

\* raw_path.strip() and re.sub(r'^[.\s]+', '', ...)
RECURSIVE StripLead(_)
StripLead(path) ==
    IF path # <<>> /\ Head(path) \in {".", " "} THEN StripLead(Tail(path)) ELSE path

replacer(part, context_, self_node) ==
    LET data_source == DictGet(context_, StrKey(IF part.node # <<>> THEN part.node ELSE self_node))
        keys == parse_path(StripLead(part.path))
        res == Walk(data_source, keys)
    IN  IF data_source.t = "none" THEN Raw(part)
        ELSE IF res.t = "none" THEN Raw(part)
        ELSE IF res.t \in {"dict", "list"} THEN Dumps(res)
        ELSE Str(res)

\* resolve_references(expr, context, self_node) for a string expr
resolve_references(expr, context_, self_node) ==
    Join([n \in 1..Len(expr) |->
            IF expr[n].ref THEN replacer(expr[n], context_, self_node) ELSE expr[n].text],
         <<>>)

\* ------------------------------------------------------------- SpecResolve
\* One call of resolve_references on a template, a context and a self node id.

Items(n) == VList([e \in 1..n |-> VInt(e)])

\* the output of a node: a scalar, a list of n items, a nested dict, a null
Output(n, x) ==
    VDict(<< [k |-> <<"x">>, v |-> VInt(x)],
             [k |-> <<"i", "t", "e", "m", "s">>, v |-> Items(n)],
             [k |-> <<"d">>, v |-> VDict(<<[k |-> <<"y">>, v |-> VStr(<<"o", "k">>)]>>)],
             [k |-> <<"n">>, v |-> VNone] >>)

NodeA == <<"A">>
NodeB == <<"B">>

Contexts(n) ==
    { <<>>,
      <<[k |-> NodeA, v |-> Output(n, 1)]>>,
      <<[k |-> NodeB, v |-> Output(n, 2)]>>,
      <<[k |-> NodeA, v |-> Output(n, 1)], [k |-> NodeB, v |-> Output(n, 2)]>> }

\* list indexes from below -2n to above n
Indexes == (0 - (2 * MaxListLen + 1))..(MaxListLen + 1)

IndexPath(k) == <<"i", "t", "e", "m", "s", "[">> \o Format(IntVal(k)) \o <<"]">>
DotIndexPath(k) == <<"i", "t", "e", "m", "s", ".">> \o Format(IntVal(k))

Paths ==
    { <<"x">>, <<"d", ".", "y">>, <<"d">>, <<"i", "t", "e", "m", "s">>, <<"n">>,
      <<"m", "i", "s", "s", "i", "n", "g">>, <<"x", ".", "y">>, <<"[", "'", "x", "'", "]">> }
      \cup {IndexPath(k) : k \in Indexes} \cup {DotIndexPath(k) : k \in Indexes}

Refs == {Ref(node, path) : node \in {<<>>, NodeA, <<"Z">>}, path \in Paths}

Templates ==
    {<<Text(<<"p", "l", "a", "i", "n">>)>>}
      \cup {<<r>> : r \in Refs}
      \cup {<<Text(<<"a", "=">>), r, Text(<<";">>)>> : r \in Refs}

ResolveInit ==
    /\ \E n \in 1..MaxListLen :
        /\ rcontext \in Contexts(n)
        /\ rexpr \in Templates
    /\ rself = NodeB
    /\ rout = [called |-> FALSE, out |-> <<>>]
    /\ ipc = "idle"
    /\ inode = <<>>
    /\ icontext = <<>>
    /\ received = [called |-> FALSE, inputs |-> <<>>]
    /\ wfTypes = <<>>
    /\ wfEdges = <<>>
    /\ pc = "idle"
    /\ IdleRun
    /\ context = <<>>
    /\ rows = <<>>
    /\ topoOut = IdleTopo
    /\ sched = IdleSched
    /\ cronOut = IdleCron
    /\ IdleSchedVars
    /\ IdleLaterVars

resolve_call ==
    /\ ~rout.called
    /\ rout' = [called |-> TRUE, out |-> resolve_references(rexpr, rcontext, rself)]
    /\ UNCHANGED <<rexpr, rcontext, rself, ipc, inode, icontext, received,
                   wfTypes, wfEdges, runVars, topoOut, sched, cronOut, schedVars, laterVars>>

ResolveNext == resolve_call

SpecResolve == ResolveInit /\ [][ResolveNext]_vars

\* the reference of a template of one part, and the list the context holds
\* for it under "items"
TheRef == rexpr[1]
SourceOf(part) == DictGet(rcontext, StrKey(IF part.node # <<>> THEN part.node ELSE rself))
ItemsOf(part) == DictGet(SourceOf(part).l, StrKey(<<"i", "t", "e", "m", "s">>)).l

\* the reference of a template of one or of three parts, and the text around it
RefPart == rexpr[(Len(rexpr) + 1) \div 2]
Before == IF Len(rexpr) = 3 THEN rexpr[1].text ELSE <<>>
After == IF Len(rexpr) = 3 THEN rexpr[3].text ELSE <<>>

\* the source node is not in the context, or the path names a key the output
\* does not have, a step into a scalar, a null, or an index outside -n..n-1
Unwalkable(part) ==
    \/ SourceOf(part).t = "none"
    \/ part.path \in {<<"m", "i", "s", "s", "i", "n", "g">>, <<"x", ".", "y">>, <<"n">>}
    \/ \E k \in Indexes :
          /\ part.path \in {IndexPath(k), DotIndexPath(k)}
          /\ (k >= Len(ItemsOf(part)) \/ k < 0 - Len(ItemsOf(part)))

\* C15 (as claimed): a reference whose source node is missing from the context
\* or whose path cannot be walked is returned as its original text between
\* the unchanged surrounding text.
C15_UnresolvedLeftIntact ==
    (rout.called /\ RefPart.ref /\ Unwalkable(RefPart))
      => rout.out = Before \o Raw(RefPart) \o After

\* C16 (as claimed): a template that is one reference items[k] into a list of
\* n items resolves to item k for 0 <= k < n, to item n + k for -n <= k < 0,
\* and is returned unchanged for every other k.
C16_IndexRule ==
    \A k \in Indexes :
        (/\ rout.called
         /\ Len(rexpr) = 1 /\ TheRef.ref
         /\ TheRef.path \in {IndexPath(k), DotIndexPath(k)}
         /\ SourceOf(TheRef).t = "dict")
          => LET n == Len(ItemsOf(TheRef))
             IN  rout.out = IF k >= 0 /\ k < n THEN Str(ItemsOf(TheRef)[k + 1])
                            ELSE IF k < 0 /\ k >= 0 - n THEN Str(ItemsOf(TheRef)[n + k + 1])
                            ELSE Raw(TheRef)

\* --------------------------------------------------------------- SpecInputs
\* Two nodes of one run, A before B in the order: A's handler returns, B's
\* values are resolved into the inputs of B's handler.

Owner == VStr(<<"u", "1">>)

\* a value of node['values']: a string, held as the template it is, or a
\* value of another type
StrValue(expr) == [isStr |-> TRUE, expr |-> expr, lit |-> VNone]
LitValue(v) == [isStr |-> FALSE, expr |-> <<>>, lit |-> v]

\* the string a template is stored as
Source(expr) ==
    Join([n \in 1..Len(expr) |-> IF expr[n].ref THEN Raw(expr[n]) ELSE expr[n].text], <<>>)

ParamKey == <<"p">>
UserKey == <<"u", "s", "e", "r", "_", "i", "d">>
CredKey == <<"c", "r", "e", "d", "e", "n", "t", "i", "a", "l", "_", "i", "d">>

ParamValues ==
    { StrValue(<<Ref(NodeA, <<"x">>)>>),
      StrValue(<<Ref(NodeA, <<"d", ".", "y">>)>>),
      StrValue(<<Ref(NodeA, IndexPath(0))>>),
      StrValue(<<Text(<<"a", "=">>), Ref(NodeA, <<"x">>), Text(<<";">>)>>),
      StrValue(<<Ref(NodeA, <<"m", "i", "s", "s", "i", "n", "g">>)>>),
      StrValue(<<Ref(<<>>, <<"x">>)>>),
      StrValue(<<Text(<<"p", "l", "a", "i", "n">>)>>),
      LitValue(VInt(7)) }

UserValues == {<<>>, <<[k |-> UserKey, v |-> StrValue(<<Text(<<"u", "2">>)>>)]>>}

CredValues ==
    { <<>>,
      <<[k |-> CredKey, v |-> StrValue(<<Text(<<"c", "1">>)>>)]>>,
      <<[k |-> CredKey, v |-> StrValue(<<Ref(NodeA, <<"x">>)>>)]>> }

\* node['values'] of B
NodeValues ==
    {<<[k |-> ParamKey, v |-> p]>> \o u \o c : p \in ParamValues, u \in UserValues, c \in CredValues}

\* d[key] = value on a dict held as its entries in insertion order
RECURSIVE DictSet(_, _, _)
DictSet(entries, key, value) ==
    IF entries = <<>> THEN <<[k |-> key, v |-> value]>>
    ELSE IF Head(entries).k = key THEN <<[k |-> key, v |-> value]>> \o Tail(entries)
    ELSE <<Head(entries)>> \o DictSet(Tail(entries), key, value)

HasKey(entries, key) == \E n \in 1..Len(entries) : entries[n].k = key

\* resolve_references(v, context, node) as line 85 calls it, with the node
\* dict as self node: a value that is no string or holds no reference is
\* returned as it is; a $json reference looks the dict up in the context,
\* which raises TypeError; other references are resolved
Raises(v) == v.isStr /\ \E n \in 1..Len(v.expr) : v.expr[n].ref /\ v.expr[n].node = <<>>
Resolved(v, context_) ==
    IF v.isStr THEN VStr(resolve_references(v.expr, context_, <<>>)) ELSE v.lit

\* the value node.get('values').get('credential_id') reads: the stored value
Declared(v) == IF v.isStr THEN VStr(Source(v.expr)) ELSE v.lit

\* lines 85-89
build_inputs_keep_user(values, context_) ==
    LET resolved == [n \in 1..Len(values) |-> [k |-> values[n].k, v |-> Resolved(values[n].v, context_)]]
        with_user == IF HasKey(resolved, UserKey) THEN resolved ELSE DictSet(resolved, UserKey, Owner)
        cred == IF HasKey(values, CredKey)
                THEN Declared((CHOOSE e \in {values[n] : n \in 1..Len(values)} : e.k = CredKey).v)
                ELSE VNone
    IN  DictSet(with_user, CredKey, cred)

build_inputs(values, context_) ==
    LET resolved == [n \in 1..Len(values) |-> [k |-> values[n].k, v |-> Resolved(values[n].v, context_)]]
        with_user == DictSet(resolved, UserKey, Owner)
        cred == IF HasKey(values, CredKey)
                THEN Declared((CHOOSE e \in {values[n] : n \in 1..Len(values)} : e.k = CredKey).v)
                ELSE VNone
    IN  DictSet(with_user, CredKey, cred)

InputsInit ==
    /\ ipc = "a_run"
    /\ \E n \in 1..MaxListLen, values \in NodeValues :
          inode = [result |-> Output(n, 1), values |-> values]
    /\ icontext = <<>>
    /\ received = [called |-> FALSE, inputs |-> <<>>]
    /\ rexpr = <<>>
    /\ rcontext = <<>>
    /\ rself = <<>>
    /\ rout = [called |-> FALSE, out |-> <<>>]
    /\ wfTypes = <<>>
    /\ wfEdges = <<>>
    /\ pc = "idle"
    /\ IdleRun
    /\ context = <<>>
    /\ rows = <<>>
    /\ topoOut = IdleTopo
    /\ sched = IdleSched
    /\ cronOut = IdleCron
    /\ IdleSchedVars
    /\ IdleLaterVars

node_a_done_nowrite ==
    /\ ipc = "a_run"
    /\ \E ok \in BOOLEAN :
          /\ icontext' = icontext
          /\ ipc' = IF ok THEN "b_inputs" ELSE "halted"
    /\ UNCHANGED <<rexpr, rcontext, rself, rout, inode, received,
                   wfTypes, wfEdges, runVars, topoOut, sched, cronOut, schedVars, laterVars>>

\* lines 104-132 for A: its handler returned and the result is stored in the
\* context under A's id, or it raised and the loop breaks
node_a_done ==
    /\ ipc = "a_run"
    /\ \E ok \in BOOLEAN :
          /\ icontext' = IF ok THEN DictSet(icontext, NodeA, inode.result) ELSE icontext
          /\ ipc' = IF ok THEN "b_inputs" ELSE "halted"
    /\ UNCHANGED <<rexpr, rcontext, rself, rout, inode, received,
                   wfTypes, wfEdges, runVars, topoOut, sched, cronOut, schedVars, laterVars>>

\* lines 85-89 for B: a value whose resolution raises fails the node
node_b_inputs ==
    /\ ipc = "b_inputs"
    /\ IF \E n \in 1..Len(inode.values) : Raises(inode.values[n].v)
       THEN ipc' = "b_failed" /\ received' = received
       ELSE /\ ipc' = "b_insert"
            /\ received' = [called |-> FALSE, inputs |-> build_inputs(inode.values, icontext)]
    /\ UNCHANGED <<rexpr, rcontext, rself, rout, inode, icontext,
                   wfTypes, wfEdges, runVars, topoOut, sched, cronOut, schedVars, laterVars>>

\* lines 92-110 for B: the insert of the node row with the inputs as payload,
\* then execute_node, which calls the handler with the inputs when the
\* manifest names one; a raise of the insert or of the handler fails the node
node_b_dispatch ==
    /\ ipc = "b_insert"
    /\ \E o \in StoreOutcomes, handler \in {"none", "ok", "raise"} :
          /\ ipc' = IF o = "raise" \/ (handler = "raise") THEN "b_failed" ELSE "b_done"
          /\ received' = [received EXCEPT !.called = (o # "raise" /\ handler # "none")]
    /\ iwrites' = Append(iwrites, [op |-> "insert", status |-> "running",
                                   payload |-> received.inputs])
    /\ UNCHANGED <<rexpr, rcontext, rself, rout, inode, icontext,
                   wfTypes, wfEdges, runVars, topoOut, sched, cronOut, schedVars,
                   inFlight, runs, runRows, nodeRows, nodeIn, nodeOut>>

\* lines 113-123 for B: the completion update, issued after the try whether
\* the node succeeded or failed
node_b_update ==
    /\ ipc \in {"b_failed", "b_done"}
    /\ iwrites' = Append(iwrites, [op |-> "update",
                                   status |-> IF ipc = "b_done" THEN "success" ELSE "failed",
                                   payload |-> <<>>])
    /\ ipc' = "b_updated"
    /\ UNCHANGED <<rexpr, rcontext, rself, rout, inode, icontext, received,
                   wfTypes, wfEdges, runVars, topoOut, sched, cronOut, schedVars,
                   inFlight, runs, runRows, nodeRows, nodeIn, nodeOut>>

InputsNext == node_a_done \/ node_b_inputs \/ node_b_dispatch \/ node_b_update

SpecInputs == InputsInit /\ [][InputsNext]_vars

Param == inode.values[1].v
Got(key) == DictGet(received.inputs, StrKey(key))

\* C17: when B's handler is invoked (A has succeeded before), a value of B
\* that is one reference $('A').json.<path> to a scalar of A's output has
\* been replaced by the string form of that scalar: x of {x: 1} gives "1".
C17_NamedReferenceResolved ==
    received.called =>
        /\ Param = StrValue(<<Ref(NodeA, <<"x">>)>>) => Got(ParamKey) = VStr(<<"1">>)
        /\ Param = StrValue(<<Ref(NodeA, <<"d", ".", "y">>)>>) => Got(ParamKey) = VStr(<<"o", "k">>)
        /\ Param = StrValue(<<Ref(NodeA, IndexPath(0))>>) => Got(ParamKey) = VStr(<<"1">>)

C17_Witness ==
    /\ received.called
    /\ Param = StrValue(<<Ref(NodeA, <<"x">>)>>)
    /\ Got(ParamKey) = VStr(<<"1">>)

DeclaredCredential ==
    IF HasKey(inode.values, CredKey)
    THEN LET v == DictGet(inode.values, StrKey(CredKey))
         IN  IF v.isStr THEN VStr(Source(v.expr)) ELSE v.lit
    ELSE VNone

\* C18: the inputs a handler is invoked with hold user_id, which is the
\* workflow owner's id also when the node's values define a user_id, and
\* credential_id, which is the credential the node declares.
C18_OwnerAndCredential ==
    received.called =>
        /\ HasKey(received.inputs, UserKey) /\ Got(UserKey) = Owner
        /\ HasKey(received.inputs, CredKey) /\ Got(CredKey) = DeclaredCredential

\* a handler was invoked for a node whose values define their own user_id and
\* a credential
C18_Witness ==
    /\ received.called
    /\ HasKey(inode.values, UserKey)
    /\ HasKey(inode.values, CredKey)
    /\ Got(UserKey) = Owner

\* C19: within one run a node that is about to be dispatched has not been
\* dispatched before, a result is only stored for a node that has no context
\* entry yet, and an entry of the context never changes once written.
C19_DispatchedAndStoredOnce ==
    /\ [](/\ pc = "dispatch" => CurrentNode \notin dispatched
          /\ (pc = "check" /\ status = "success") => context[CurrentNode] = "absent")
    /\ [][\A n \in DOMAIN context : context[n] # "absent" => context'[n] = context[n]]_vars

\* a finished run in which two nodes were dispatched and both results stored
C19_Witness ==
    /\ pc = "done"
    /\ Cardinality(dispatched) = 2
    /\ \A n \in dispatched : context[n] # "absent"

\* C20 (as claimed): the coordinator issues at most one completion write to the
\* run row, whatever the outcome of the store calls.
C20_OneCompletionWrite == Len(runWrites) <= 1

\* C21 (as claimed): once the engine is through with a node it has reached,
\* the node's row was written exactly twice, first the insert with status
\* running and the resolved inputs, then one completion update; and no
\* completion update is issued without the insert before it.
C21_InsertThenUpdate ==
    /\ ipc = "b_updated" =>
          /\ Len(iwrites) = 2
          /\ iwrites[1] = [op |-> "insert", status |-> "running", payload |-> received.inputs]
          /\ iwrites[2].op = "update"
    /\ \A n \in 1..Len(iwrites) :
          iwrites[n].op = "update" => \E m \in 1..(n - 1) : iwrites[m].op = "insert"

SelfRef == Ref(<<>>, <<"x">>)

\* C24 (as claimed): once the engine is through resolving the values of a
\* node that holds {{ $json.x }} and has no context entry of its own, the
\* value is in the inputs as the text it was, and the node has not failed in
\* the resolution.
C24_SelfReferencePassedThrough ==
    (ipc \notin {"a_run", "halted", "b_inputs"} /\ Param = StrValue(<<SelfRef>>))
      => Got(ParamKey) = VStr(Raw(SelfRef))

\* ----------------------------------------------------------------- SpecRuns
\* Several run_job tasks for the same workflow, each in its own worker, in
\* any interleaving.  The workflow is A -> B, B holding the value
\* {{ $('A').json.x }}; the handler of A returns {x: t} in task t, so that the
\* outputs of different runs differ.  The store gives every inserted
\* workflow_runs row the next id.

MaxRuns == 2

Tasks == 1..MaxRuns

NewTask == [rpc |-> "queued", run_id |-> 0, ctx |-> <<>>, binput |-> <<>>, failed |-> FALSE]

RunsInit ==
    /\ runs = [t \in Tasks |-> NewTask]
    /\ runRows = <<>>
    /\ nodeRows = {}
    /\ iwrites = <<>>
    /\ inFlight = <<>>
    /\ nodeIn = <<>>
    /\ nodeOut = [called |-> FALSE, value |-> <<>>]
    /\ wfTypes = <<>>
    /\ wfEdges = <<>>
    /\ pc = "idle"
    /\ IdleRun
    /\ context = <<>>
    /\ rows = <<>>
    /\ topoOut = IdleTopo
    /\ sched = IdleSched
    /\ cronOut = IdleCron
    /\ IdleSchedVars
    /\ IdleResolveVars

RunsFrame ==
    UNCHANGED <<wfTypes, wfEdges, runVars, topoOut, sched, cronOut, schedVars, resolveVars,
                iwrites, inFlight, nodeIn, nodeOut>>

\* run_job lines 25-36: insert the run row and take its id
runs_insert(t) ==
    /\ runs[t].rpc = "queued"
    /\ runRows' = Append(runRows, "running")
    /\ runs' = [runs EXCEPT ![t].rpc = "a_start", ![t].run_id = Len(runRows) + 1]
    /\ UNCHANGED nodeRows
    /\ RunsFrame

\* .update(...).eq("run_id", run_id).eq("node_id", node)
UpdateRow(table, run_id, node, st) ==
    {IF r.run = run_id /\ r.node = node THEN [r EXCEPT !.status = st] ELSE r : r \in table}

\* execute_workflow lines 85-101 for A: inputs and the running insert
runs_a_start(t) ==
    /\ runs[t].rpc = "a_start"
    /\ nodeRows' = nodeRows \cup {[run |-> runs[t].run_id, node |-> NodeA, status |-> "running"]}
    /\ runs' = [runs EXCEPT ![t].rpc = "a_end"]
    /\ UNCHANGED runRows
    /\ RunsFrame

\* runs_a_end writing the output into the context of every task
runs_a_end_shared(t) ==
    /\ runs[t].rpc = "a_end"
    /\ \E ok \in BOOLEAN :
          /\ nodeRows' = UpdateRow(nodeRows, runs[t].run_id, NodeA,
                                   IF ok THEN "success" ELSE "failed")
          /\ runs' = [u \in Tasks |->
                        [runs[u] EXCEPT
                           !.ctx = IF ok THEN DictSet(@, NodeA, Output(1, t)) ELSE @,
                           !.rpc = IF u = t THEN (IF ok THEN "b_start" ELSE "final") ELSE @,
                           !.failed = IF u = t THEN ~ok ELSE @]]
    /\ UNCHANGED runRows
    /\ RunsFrame

\* lines 104-132 for A: the handler returns or raises, the completion update,
\* then context[A] = result or break
runs_a_end(t) ==
    /\ runs[t].rpc = "a_end"
    /\ \E ok \in BOOLEAN :
          /\ nodeRows' = UpdateRow(nodeRows, runs[t].run_id, NodeA,
                                   IF ok THEN "success" ELSE "failed")
          /\ runs' = [runs EXCEPT
                        ![t].ctx = IF ok THEN DictSet(@, NodeA, Output(1, t)) ELSE @,
                        ![t].rpc = IF ok THEN "b_start" ELSE "final",
                        ![t].failed = ~ok]
    /\ UNCHANGED runRows
    /\ RunsFrame

\* lines 85-101 for B: the value is resolved against the context of the task
runs_b_start(t) ==
    /\ runs[t].rpc = "b_start"
    /\ nodeRows' = nodeRows \cup {[run |-> runs[t].run_id, node |-> NodeB, status |-> "running"]}
    /\ runs' = [runs EXCEPT
                  ![t].rpc = "b_end",
                  ![t].binput = resolve_references(<<Ref(NodeA, <<"x">>)>>, runs[t].ctx, NodeB)]
    /\ UNCHANGED runRows
    /\ RunsFrame

\* lines 104-132 for B
runs_b_end(t) ==
    /\ runs[t].rpc = "b_end"
    /\ \E ok \in BOOLEAN :
          /\ nodeRows' = UpdateRow(nodeRows, runs[t].run_id, NodeB,
                                   IF ok THEN "success" ELSE "failed")
          /\ runs' = [runs EXCEPT ![t].rpc = "final", ![t].failed = ~ok]
    /\ UNCHANGED runRows
    /\ RunsFrame

\* run_job lines 43-45: execute_workflow returned, the run row is set to success
runs_finish(t) ==
    /\ runs[t].rpc = "final"
    /\ runRows' = [runRows EXCEPT ![runs[t].run_id] = "success"]
    /\ runs' = [runs EXCEPT ![t].rpc = "done"]
    /\ UNCHANGED nodeRows
    /\ RunsFrame

RunsNext ==
    \E t \in Tasks :
        \/ runs_insert(t)
        \/ runs_a_start(t)
        \/ runs_a_end(t)
        \/ runs_b_start(t)
        \/ runs_b_end(t)
        \/ runs_finish(t)

SpecRuns == RunsInit /\ [][RunsNext]_vars

RowsOf(table, run_id) == {r \in table : r.run = run_id}

\* C22: concurrent runs of one workflow have run rows of their own, each
\* context holds the output its own run recorded and B's reference resolves
\* to it, and a step of one run changes neither the local state, the run row
\* nor the node rows of another run.
C22_RunsIndependent ==
    /\ [](\A t \in Tasks :
            /\ \A u \in Tasks \ {t} : runs[t].run_id # 0 => runs[t].run_id # runs[u].run_id
            /\ runs[t].ctx \in {<<>>, <<[k |-> NodeA, v |-> Output(1, t)]>>}
            /\ runs[t].binput \in {<<>>, Format(IntVal(t))}
            /\ \A r \in nodeRows : r.run \in 1..Len(runRows))
    /\ [][\A t \in Tasks :
            runs'[t] = runs[t] =>
               /\ RowsOf(nodeRows', runs[t].run_id) = RowsOf(nodeRows, runs[t].run_id)
               /\ runs[t].run_id # 0 => runRows'[runs[t].run_id] = runRows[runs[t].run_id]]_vars

\* one run has ended after A failed while another, started before it ended,
\* resolved B's reference and went on to B
C22_Witness ==
    \E t \in Tasks, u \in Tasks :
        /\ runs[t].rpc = "done" /\ runs[t].failed /\ runs[t].binput = <<>>
        /\ runs[u].binput = Format(IntVal(u))
        /\ runs[u].run_id < runs[t].run_id

\* ----------------------------------------------------------------- SpecFire
\* The APScheduler thread firing registered triggers while Celery workers
\* execute earlier requests.  The registry is one that schedule_job calls
\* produced; at most MaxWorkers runs execute at a time.

MaxWorkers == 2

DailyCron ==
    schedule_obj_to_cron([present |-> TRUE, interval |-> "Days", count |-> Absent,
                          hour |-> Absent, minute |-> Absent]).cron

RECURSIVE Scheduled(_)
Scheduled(S) ==
    IF S = {} THEN {}
    ELSE LET w == Min(S) IN schedule_job(Scheduled(S \ {w}), w, DailyCron).jobs

Running(f) == LET RECURSIVE Sum(_)
                  Sum(S) == IF S = {} THEN 0 ELSE LET w == Min(S) IN f[w] + Sum(S \ {w})
              IN Sum(DOMAIN f)

FireInit ==
    /\ jobs \in {Scheduled(S) : S \in SUBSET WfIds}
    /\ wfActive = <<>>
    /\ wfCron = <<>>
    /\ celeryQueue = <<>>
    /\ lastCall = Call("none", 0, "none", <<>>)
    /\ inFlight = [w \in WfIds |-> 0]
    /\ iwrites = <<>>
    /\ runs = <<>>
    /\ runRows = <<>>
    /\ nodeRows = <<>>
    /\ nodeIn = <<>>
    /\ nodeOut = [called |-> FALSE, value |-> <<>>]
    /\ wfTypes = <<>>
    /\ wfEdges = <<>>
    /\ pc = "idle"
    /\ IdleRun
    /\ context = <<>>
    /\ rows = <<>>
    /\ topoOut = IdleTopo
    /\ sched = IdleSched
    /\ cronOut = IdleCron
    /\ IdleResolveVars

FireFrame ==
    UNCHANGED <<wfTypes, wfEdges, runVars, topoOut, sched, cronOut, resolveVars,
                wfActive, wfCron, iwrites, runs, runRows, nodeRows, nodeIn, nodeOut>>

\* a free worker takes the oldest request and enters run_job
run_job_start ==
    /\ celeryQueue # <<>>
    /\ Running(inFlight) < MaxWorkers
    /\ celeryQueue' = Tail(celeryQueue)
    /\ inFlight' = [inFlight EXCEPT ![Head(celeryQueue)] = @ + 1]
    /\ lastCall' = Call("run_job", Head(celeryQueue), "started", <<>>)
    /\ UNCHANGED jobs
    /\ FireFrame

\* run_job_end taking the trigger of a failed workflow out of the registry
run_job_end_unschedule ==
    \E w \in WfIds, o \in {"success", "failed"} :
        /\ inFlight[w] > 0
        /\ inFlight' = [inFlight EXCEPT ![w] = @ - 1]
        /\ lastCall' = Call("run_job", w, o, <<>>)
        /\ jobs' = IF o = "failed" THEN remove_job(jobs, w).jobs ELSE jobs
        /\ UNCHANGED celeryQueue
        /\ FireFrame

\* run_job lines 39-52: the run ends as success or failed; neither branch
\* reaches the scheduler
run_job_end ==
    \E w \in WfIds, o \in {"success", "failed"} :
        /\ inFlight[w] > 0
        /\ inFlight' = [inFlight EXCEPT ![w] = @ - 1]
        /\ lastCall' = Call("run_job", w, o, <<>>)
        /\ UNCHANGED <<jobs, celeryQueue>>
        /\ FireFrame

FireNext == trigger_fire \/ run_job_start \/ run_job_end

SpecFire == FireInit /\ [][FireNext]_vars

\* C23: a fire appends one request carrying the workflow id of a registered
\* trigger to the work queue and starts no run itself; runs are started only
\* by a worker taking the oldest request; while the queue has room every
\* registered trigger can fire whatever runs are executing; and no step of a
\* run, failed or not, changes the registry.
C23_FireOnlyEnqueues ==
    /\ [][/\ jobs' = jobs
          /\ Len(celeryQueue') > Len(celeryQueue) =>
                /\ \E w \in WfIds :
                      /\ JobsOf(jobs, w) # {}
                      /\ celeryQueue' = Append(celeryQueue, w)
                /\ inFlight' = inFlight
          /\ (\E w \in WfIds : inFlight'[w] > inFlight[w]) =>
                /\ celeryQueue # <<>>
                /\ celeryQueue' = Tail(celeryQueue)
                /\ inFlight' = [inFlight EXCEPT ![Head(celeryQueue)] = @ + 1]]_vars
    /\ [](\A w \in WfIds :
            (JobsOf(jobs, w) # {} /\ Len(celeryQueue) < MaxQueue) =>
               ENABLED (trigger_fire /\ celeryQueue' = Append(celeryQueue, w)))

\* the trigger of a workflow fired again while a run of it is executing and
\* an earlier request for it is still queued
C23_Witness ==
    /\ lastCall = Call("fire", Min(WfIds), "ok", <<>>)
    /\ inFlight[Min(WfIds)] > 0
    /\ celeryQueue = <<Min(WfIds), Min(WfIds)>>

\* ----------------------------------------------------------------- SpecNode
\* execute_node as a function of the node type, the manifest's action url,
\* what the handler lookup finds and the inputs.  The urls below hold no
\* '{' or '}' and the node has no 'operation' value, so lines 174-192 leave
\* endpoint = url_template.

\* str.lstrip('/')
RECURSIVE lstrip(_)
lstrip(s) == IF s # <<>> /\ Head(s) = "/" THEN lstrip(Tail(s)) ELSE s

\* str.replace('/', '_')
replace(s) == [n \in 1..Len(s) |-> IF s[n] = "/" THEN "_" ELSE s[n]]

\* str.split("_", 1)
split(s) ==
    LET at == {n \in 1..Len(s) : s[n] = "_"}
    IN IF at = {} THEN <<s>>
       ELSE <<SubSeq(s, 1, Min(at) - 1), SubSeq(s, Min(at) + 1, Len(s))>>

Urls ==
    { <<>>,                                   \* no action url
      <<"/", "i", "f">>,                      \* one part
      <<"/", "i", "f", "/", "e">>,            \* service and function
      <<"h", ":", "/", "/", "a", "/", "e">> } \* a remote endpoint

NodeKinds == {"IfNode", "Scheduler", "Other"}

\* what the lookup in indicator_map or function.<service> gives, and what
\* the handler then does
Handlers == {"none", "returns", "raises"}

NodeCalls ==
    [type : NodeKinds, url : Urls, handler : Handlers,
     condition : {"True", "False", "None"},
     onTrue : {"T", "None"}, onFalse : {"F", "None"}]

Returned(st, tag, val) == [status |-> st, output |-> [tag |-> tag, val |-> val]]

\* the built-in branches, lines 230-238
built_in(c) ==
    IF c.type = "IfNode"
      THEN Returned("success", "result", IF c.condition = "True" THEN c.onTrue ELSE c.onFalse)
    ELSE IF c.type = "Scheduler"
      THEN Returned("success", "scheduled_at", "now")
    ELSE Returned("success", "empty", "None")

\* execute_node, lines 162-238
execute_node_call(c) ==
    LET op_func == replace(lstrip(c.url))
    IN IF c.url # <<>> /\ Head(c.url) = "/" /\ Len(split(op_func)) >= 2
         THEN IF c.handler = "returns" THEN Returned("success", "handler", "data")
              ELSE IF c.handler = "raises" THEN Returned("raised", "exception", "None")
              ELSE Returned("error", "No handler for", op_func)
       ELSE built_in(c)

NodeInit ==
    /\ nodeIn \in NodeCalls
    /\ nodeOut = [called |-> FALSE, value |-> <<>>]
    /\ iwrites = <<>>
    /\ inFlight = <<>>
    /\ runs = <<>>
    /\ runRows = <<>>
    /\ nodeRows = <<>>
    /\ wfTypes = <<>>
    /\ wfEdges = <<>>
    /\ pc = "idle"
    /\ IdleRun
    /\ context = <<>>
    /\ rows = <<>>
    /\ topoOut = IdleTopo
    /\ sched = IdleSched
    /\ cronOut = IdleCron
    /\ IdleSchedVars
    /\ IdleResolveVars

node_call ==
    /\ ~nodeOut.called
    /\ nodeOut' = [called |-> TRUE, value |-> execute_node_call(nodeIn)]
    /\ UNCHANGED <<nodeIn, iwrites, inFlight, runs, runRows, nodeRows,
                   wfTypes, wfEdges, runVars, topoOut, sched, cronOut, schedVars, resolveVars>>

NodeNext == node_call

SpecNode == NodeInit /\ [][NodeNext]_vars

\* C25: whatever the action url, the result of an IfNode is
\* {status: success, output: {result: onTrue if condition else onFalse}}.
C25_IfNodeFixedShape ==
    (nodeOut.called /\ nodeIn.type = "IfNode") =>
        nodeOut.value = Returned("success", "result",
                                 IF nodeIn.condition = "True" THEN nodeIn.onTrue
                                 ELSE nodeIn.onFalse)

\* ------------------------------------------------------- order of the sort

\* the nodes no edge enters
Roots(n, edges) == {m \in 1..n : \A i \in 1..Len(edges) : edges[i][2] # m}

\* when the indegree of m reaches zero: the position in the order of the
\* source that is popped last among its incoming edges, then the index of
\* the last of the edges from that source into m
Release(ord, edges, m) ==
    LET into == {i \in 1..Len(edges) : edges[i][2] = m}
        last == CHOOSE i \in into :
                    \A j \in into :
                        \/ Pos(ord, edges[j][1]) < Pos(ord, edges[i][1])
                        \/ (edges[j][1] = edges[i][1] /\ j <= i)
    IN  <<Pos(ord, edges[last][1]), last>>

Earlier(a, b) == a[1] < b[1] \/ (a[1] = b[1] /\ a[2] < b[2])

\* C26: the order starts with all zero-indegree nodes in declaration order,
\* and the other nodes follow in the order in which their indegree reaches
\* zero.
C26_KahnFifoOrder ==
    (topoOut.called /\ topoOut.res.ok) =>
        LET ord == topoOut.res.order
            n == Len(wfTypes)
            k == Cardinality(Roots(n, wfEdges))
        IN  /\ Len(ord) = n
            /\ \A i \in 1..k : ord[i] \in Roots(n, wfEdges)
            /\ \A i \in 1..(k - 1) : ord[i] < ord[i + 1]
            /\ \A i \in (k + 1)..n : \A j \in (i + 1)..n :
                  Earlier(Release(ord, wfEdges, ord[i]), Release(ord, wfEdges, ord[j]))

\* one root, and two other nodes of which the one declared later is
\* released first
C26_Witness ==
    /\ topoOut.called /\ topoOut.res.ok
    /\ Roots(Len(wfTypes), wfEdges) = {1}
    /\ topoOut.res.order = <<1, 3, 2>>

\* C27: a run whose workflow definition could not be loaded is not finalized
\* as success.
C27_AbsentDefinitionNotSuccess ==
    (pc = "done" /\ ~loaded) => runRow # "success"

\* the non-trigger sources of the edges into n
Predecessors(n) ==
    {wfEdges[i][1] : i \in {j \in 1..Len(wfEdges) : wfEdges[j][2] = n}}
        \cap {m \in 1..Len(wfTypes) : wfTypes[m] # "Scheduler"}

Succeeded(m) == m \in dispatched \ raised /\ context[m] # "absent"

C29_ActiveIffRegistered ==
    \A w \in StoredIds : wfActive[w] <=> (JobsOf(jobs, w) # {})

\* ----------------------------------------------------------------- FairSpec
\* The worker that took the request executes run_job to its end: every handler
\* call returns or raises and every store call comes back, so a step that is
\* enabled is eventually taken.
FairSpec == Init /\ [][Next]_vars /\ WF_vars(Next)

Finalized == runRow \in {"success", "failed"}

\* the run has ended and its last completion update of the run row came back
\* without having been applied
LastWriteLost ==
    /\ pc = "done"
    /\ runWrites # <<>>
    /\ runWrites[Len(runWrites)].outcome # "ok"

====
